---------------------------- MODULE Spec2Model ----------------------------
(***************************************************************************)
(* archMass scene state engine (src/store.ts): the shape collection, the   *)
(* selection, the undo/redo history and the grouping operations, with the  *)
(* editor's model import (src/components/Toolbar.tsx) as the only caller   *)
(* of addShapes.                                                           *)
(*                                                                         *)
(* Numbers.  A JavaScript number is an IEEE-754 double: every arithmetic   *)
(* result is rounded to the nearest representable value (ties to even).    *)
(* The model keeps that behaviour at reduced width: a number is an integer *)
(* count of quarter units (0.5 is 2, 2.0 is 8) and every result is rounded *)
(* to MantBits significant bits.                                           *)
(*                                                                         *)
(* Identifiers.  uuidv4() returns a value never returned before; the model *)
(* draws ids from the counter nextId.  The literal id 'default-box' is 1;  *)
(* an absent parentId is 0, and so is the parentId: undefined that         *)
(* ungroupSelected writes.                                                 *)
(*                                                                         *)
(* Specifications.  Spec runs every operation that creates or removes      *)
(* shapes, with undo, redo and reset; SpecGroup runs grouping, nesting,    *)
(* ungrouping and deletion over shapes at different positions; SpecHistory *)
(* runs more snapshot-taking operations than the history keeps.            *)
(***************************************************************************)
EXTENDS Integers, Sequences, FiniteSets, TLC

\* --------------------------------------------------------- program constants
HistoryLimit == 10   \* store.ts:190  if (newPast.length > 10) newPast.shift()
YPosDefault == 2     \* store.ts:298  let yPos = 0.5
DuplicateOffset == 8 \* store.ts:256  withOffset ? 2 : 0
OpacityDefault == 4  \* store.ts:316  opacity: 1
DefaultBoxId == 1    \* store.ts:109  id: 'default-box'
NoParent == 0        \* types: parentId?: string, absent or undefined
DragThreshold == 5    \* EditorScene.tsx:362
Unfinished == -1     \* the mark of a descendant search that does not return
NullId == 0          \* store.ts:342  if (!id): selectShape(null)

MaxExports == 2      \* triggerExport calls per run of SpecExport
MaxExported == 4     \* SpecExport stops changing settings after this many files
MaxExportShapes == 2 \* SpecExport offers addShape below this many shapes
MaxExportOps == 1    \* snapshot-taking operations per run of SpecExport
MaxBoxShapes == 2    \* SpecBox offers addShape below this many shapes
MaxBoxOps == 2       \* snapshot-taking operations per run of SpecBox
ScreenWidth == 200   \* size.width, in CSS pixels
ScreenHeight == 200  \* size.height
PixelsPerQuarter == 10 \* the camera's scale: pixels to a quarter unit
MaxFrameShapes == 3  \* shapes in a run of SpecFrame
MaxFrameOps == 2     \* snapshot-taking operations per run of SpecFrame
Micro == 1000000     \* fixed point: the unit of the real numbers of solar.ts
Pi == 3141593        \* solar.ts:3  Math.PI
HalfPi == 1570796    \* Math.PI / 2
TwoPi == 6283185     \* solar.ts:36  2 * Math.PI
SeriesTerms == 8     \* terms of the sine series: below 10^-6 from the ninth on

DeclinationTolerance == 10000   \* 0.01 degree
AltitudeTolerance == 2000000    \* 2 degrees
UnitTolerance == 10             \* 10^-5 on the squared length

\* ------------------------------------------------------------------ bounds
MantBits == 4        \* significant bits kept by the arithmetic
MaxSelected == 2     \* shift-click extends a selection shorter than this
MaxShapes == 4       \* Spec offers creating operations below this many shapes
MaxOps == 3          \* snapshot-taking operations (and resets) per run of Spec
MaxGroupShapes == 5  \* SpecGroup offers creating operations below this many shapes
MaxGroupOps == 4     \* snapshot-taking operations per run of SpecGroup
MaxHistShapes == 3   \* SpecHistory offers addShape below this many shapes
MaxHistOps == HistoryLimit + 1  \* snapshot-taking operations per run of SpecHistory
MaxGestureShapes == 3  \* SpecGesture offers creating operations below this many shapes
MaxGestureOps == 3   \* snapshots per run of SpecGesture
MaxEditShapes == 4   \* SpecEdit offers creating operations below this many shapes
MaxEditOps == 3      \* snapshot-taking operations per run of SpecEdit
MaxMutateShapes == 2 \* SpecMutate offers addShape below this many shapes
MaxMutateOps == 1    \* snapshot-taking operations per run of SpecMutate
MaxDrawPoints == 3   \* SpecDraw offers a click below this many buffered points
MaxDrawOps == 1      \* surfaces finished per run of SpecDraw
MaxSurfaceOps == 2   \* surfaces finished per run of SpecSurface
MaxSelectShapes == 3 \* SpecSelect offers addShape below this many shapes
MaxSelectOps == 2    \* snapshot-taking operations per run of SpecSelect
MaxAddShapes == 4    \* SpecAdd offers addShape below this many shapes
MaxAddOps == 3       \* snapshot-taking operations per run of SpecAdd
MaxImportShapes == 6 \* SpecImport offers addShapes up to this many shapes
MaxImportOps == 3    \* snapshot-taking operations per run of SpecImport
MaxRequests == 3     \* camera requests per run of SpecCamera
MaxCameraShapes == 2 \* SpecCamera offers addShape below this many shapes
MaxCameraOps == 1    \* snapshot-taking operations per run of SpecCamera
OpacityOver == 6     \* an opacity of 1.5, passed to updateShape

\* ---------------------------------------------------------------- numbers
Abs(n) == IF n < 0 THEN -n ELSE n

RECURSIVE Pow2(_)
Pow2(k) == IF k = 0 THEN 1 ELSE 2 * Pow2(k - 1)

\* The spacing of the representable numbers at magnitude a/den: the least
\* power of two st with a/den < st * 2^MantBits.
RECURSIVE RatStep(_, _, _)
RatStep(a, den, st) ==
    IF a < den * st * Pow2(MantBits) THEN st ELSE RatStep(a, den, 2 * st)

\* num/den rounded to the nearest representable number, ties to even.
RoundRat(num, den) ==
    LET a  == Abs(num)
        st == RatStep(a, den, 1)
        q  == a \div (den * st)
        r  == a % (den * st)
        up == IF 2 * r > den * st \/ (2 * r = den * st /\ q % 2 = 1) THEN 1 ELSE 0
    IN  (IF num < 0 THEN -1 ELSE 1) * (q + up) * st

FAdd(a, b) == RoundRat(a + b, 1)
FSub(a, b) == RoundRat(a - b, 1)

\* 1 / n as a number: num / den with den a power of two and num of MantBits
\* significant bits, the nearest such fraction to 1/n (a reciprocal is below
\* one unit, so it keeps its own exponent).
RECURSIVE RecipDen(_, _)
RecipDen(n, den) == IF den >= n * Pow2(MantBits - 1) THEN den ELSE RecipDen(n, 2 * den)

Recip(n) ==
    LET den == RecipDen(n, 1)
        q   == den \div n
        r   == den % n
        up  == IF 2 * r > n \/ (2 * r = n /\ q % 2 = 1) THEN 1 ELSE 0
    IN  [num |-> q + up, den |-> den]

\* Vector3.divideScalar(n) is multiplyScalar(1 / n)
FDivScalar(a, n) == RoundRat(a * Recip(n).num, Recip(n).den)

VAdd(p, q) == <<FAdd(p[1], q[1]), FAdd(p[2], q[2]), FAdd(p[3], q[3])>>
VSub(p, q) == <<FSub(p[1], q[1]), FSub(p[2], q[2]), FSub(p[3], q[3])>>
VDivScalar(p, n) == <<FDivScalar(p[1], n), FDivScalar(p[2], n), FDivScalar(p[3], n)>>

\* ------------------------------------------------------------ real numbers
\* The solar formulas are evaluated in fixed point: a real number r is the
\* integer nearest to r * Micro.  Products and quotients are taken in two
\* halves of three digits so that no intermediate value leaves 32 bits.
Sign(n) == IF n < 0 THEN -1 ELSE 1

\* n / d to the nearest integer, d > 0
RoundDiv(n, d) == Sign(n) * ((Abs(n) + d \div 2) \div d)

\* a * b
MulS(a, b) ==
    LET x  == Abs(a)
        y  == Abs(b)
        x1 == x \div 1000
        x0 == x % 1000
        y1 == y \div 1000
        y0 == y % 1000
    IN  Sign(a) * Sign(b)
          * (x1 * y1 + RoundDiv(x1 * y0 + x0 * y1 + RoundDiv(x0 * y0, 1000), 1000))

\* Math.min(1, Math.max(-1, a / b)), b # 0
ClampedRatio(a, b) ==
    LET x  == Abs(a)
        y  == Abs(b)
        r1 == (x * 1000) % y
        q1 == (x * 1000) \div y
        q2 == (r1 * 1000) \div y
    IN  IF x >= y THEN Sign(a) * Sign(b) * Micro
        ELSE Sign(a) * Sign(b) * (q1 * 1000 + q2)

\* x - x^3/3! + x^5/5! - ..., for x between -pi/2 and pi/2: the terms from
\* the k-th on, t being the k-th
RECURSIVE SinTerms(_, _, _)
SinTerms(t, x, k) ==
    IF t = 0 \/ k > SeriesTerms THEN 0
    ELSE t + SinTerms(-RoundDiv(MulS(MulS(t, x), x), (2 * k) * (2 * k + 1)), x, k + 1)

\* Math.sin(x)
Sin(x) ==
    LET r == x % TwoPi
        a == IF r > Pi THEN r - TwoPi ELSE r
        b == IF a > HalfPi THEN Pi - a ELSE IF a < -HalfPi THEN -Pi - a ELSE a
    IN  SinTerms(b, b, 1)

\* Math.cos(x)
Cos(x) == Sin(x + HalfPi)

\* the angle between lo and hi whose sine is s, by bisection
RECURSIVE AsinBetween(_, _, _)
AsinBetween(s, lo, hi) ==
    IF hi - lo <= 1 THEN lo
    ELSE LET mid == (lo + hi) \div 2
         IN  IF Sin(mid) <= s THEN AsinBetween(s, mid, hi) ELSE AsinBetween(s, lo, mid)

\* Math.asin(s), Math.acos(c), for arguments between -1 and 1
Asin(s) == AsinBetween(s, -HalfPi, HalfPi)
Acos(c) == HalfPi - Asin(c)

\* toRad(deg) = (deg * Math.PI) / 180,  toDeg(rad) = (rad * 180) / Math.PI
ToRad(deg) == RoundDiv(MulS(deg, Pi), 180)
ToDeg(rad) == ClampedRatio(rad, Pi) * 180

\* -------------------------------------------------------------- sequences
Includes(seq, x) == \E i \in 1..Len(seq) : seq[i] = x
Last(seq) == seq[Len(seq)]
Range(seq) == {seq[i] : i \in 1..Len(seq)}
Ids(shs) == [i \in 1..Len(shs) |-> shs[i].id]

\* ------------------------------------------------------------------ shapes
\* ShapeData, with the fields the engine reads or writes.  name is
\* "<base> <num, two digits>" followed by copies times " (Copy)".
Shape(id, name, type, position) ==
    [id |-> id, name |-> name, type |-> type, parentId |-> NoParent,
     collapsed |-> FALSE, position |-> position, points |-> <<>>,
     extrudeDepth |-> 0, opacity |-> OpacityDefault,
     visible |-> TRUE, locked |-> FALSE]

Name(base, num) == [base |-> base, num |-> num, copies |-> 0]

DefaultBox(id) == Shape(id, Name("box", 1), "box", <<0, YPosDefault, 0>>)

VARIABLES
    shapes,        \* ShapeData[]
    selectedIds,   \* string[]
    history,       \* { past: ShapeData[][], future: ShapeData[][] }
    isDrawing,     \* boolean
    transformMode, \* 'translate' | 'rotate' | 'scale' | 'pushpull' | 'select'
    clipboard,     \* ShapeData | null: <<>> for null, <<shape>> otherwise
    drawingPoints, \* [number, number, number][]
    isDragging,    \* boolean
    viewMode,      \* 'perspective' | 'orthographic'
    cameraRequest, \* CameraRequest | null: <<>> for null, <<request>> otherwise
    sunSettings,   \* SunSettings: latitude, longitude, date, time
    exportRequested, \* number: counter signal
    backgroundColor, \* string
    gridVisible,   \* boolean
    isSelecting,   \* BoxSelector state: boolean
    startPoint,    \* BoxSelector state: {x, y} | null: <<>> for null, <<point>> otherwise
    endPoint,      \* BoxSelector state: {x, y} | null
    listener,      \* the values the BoxSelector effect closed over when it last ran
    pointerHeld,   \* the left button is down, after a press on the canvas
    nextId,        \* the next value uuidv4() returns
    lastOp,        \* the operation that led to this state, with its arguments
    ops,           \* snapshot-taking operations (and resets) so far
    trace,         \* reference undo stack: the collections an undo/redo walk visits
    cursor,        \* the entry of trace the current collection is expected at
    linear,        \* no undo, redo or reset since the initial state
    requested,     \* the ids of the camera requests made so far
    exported       \* the number of times the export effect has written a file

store == <<shapes, selectedIds, history, isDrawing, transformMode,
           clipboard, drawingPoints, isDragging, viewMode, cameraRequest, sunSettings,
           exportRequested, backgroundColor, gridVisible>>
ghost == <<lastOp, ops, trace, cursor, linear, requested, exported>>
scene == <<exportRequested, backgroundColor, gridVisible, exported>>
box == <<isSelecting, startPoint, endPoint, listener, pointerHeld>>
panels == <<viewMode, cameraRequest, requested, sunSettings, scene>>
display == <<viewMode, cameraRequest, requested, sunSettings, scene, box>>
vars == <<shapes, selectedIds, history, isDrawing, transformMode,
          clipboard, drawingPoints, isDragging, viewMode, cameraRequest, sunSettings,
          exportRequested, backgroundColor, gridVisible,
          isSelecting, startPoint, endPoint, listener, pointerHeld,
          nextId,
          lastOp, ops, trace, cursor, linear, requested, exported>>

Init ==
    /\ shapes = <<DefaultBox(DefaultBoxId)>>
    /\ selectedIds = <<>>
    /\ history = [past |-> <<>>, future |-> <<>>]
    /\ isDrawing = FALSE
    /\ transformMode = "translate"
    /\ clipboard = <<>>
    /\ drawingPoints = <<>>
    /\ isDragging = FALSE
    /\ viewMode = "perspective"
    /\ cameraRequest = <<>>
    /\ requested = {}
    /\ exportRequested = 0
    /\ backgroundColor = "#f1f5f9"
    /\ gridVisible = TRUE
    /\ exported = 0
    /\ isSelecting = FALSE
    /\ startPoint = <<>>
    /\ endPoint = <<>>
    /\ listener = [transformMode |-> "translate", isSelecting |-> FALSE,
                   startPoint |-> <<>>, endPoint |-> <<>>,
                   shapes |-> <<DefaultBox(DefaultBoxId)>>]
    /\ pointerHeld = FALSE
    /\ sunSettings = [latitude |-> 40712800, longitude |-> -74006000,
                      date |-> 172, time |-> 12 * Micro]
    /\ nextId = DefaultBoxId + 1
    /\ lastOp = [name |-> "init", snap |-> FALSE, acted |-> FALSE, dropped |-> 0]
    /\ ops = 0
    /\ trace = <<shapes>>
    /\ cursor = 1
    /\ linear = TRUE


\* ------------------------------------------------------------ bookkeeping
\* The reference undo stack.  It holds the collections a walk of undo() and
\* redo() calls is expected to visit: the collection before each of the last
\* HistoryLimit snapshot-taking operations, then the one after the last.
KeepLast(seq, n) == IF Len(seq) > n THEN SubSeq(seq, Len(seq) - n + 1, Len(seq)) ELSE seq

\* lastOp: the operation's name, whether it called snapshot() (and how many
\* redo entries that discarded) and whether it got past its early returns.
Op(name, snap, acted) ==
    [name |-> name, snap |-> snap, acted |-> acted,
     dropped |-> IF snap THEN Len(history.future) ELSE 0]
Brief(op) == [name |-> op.name, snap |-> op.snap, acted |-> op.acted, dropped |-> op.dropped]
Before == [shapes |-> shapes, selectedIds |-> selectedIds]

Track(op) == lastOp' = op

TraceRestart == trace' = <<shapes'>> /\ cursor' = 1
TraceSame == UNCHANGED <<trace, cursor>>
\* an operation that called snapshot() and then produced shapes'
TraceSnap ==
    /\ trace' = KeepLast(Append(SubSeq(trace, 1, cursor), shapes'), HistoryLimit + 1)
    /\ cursor' = Len(trace')
    /\ ops' = ops + 1
\* a mutation without snapshot(): part of the operation on top of the stack
TraceMutate ==
    IF cursor = Len(trace)
    THEN trace' = [trace EXCEPT ![cursor] = shapes'] /\ cursor' = cursor
    ELSE TraceRestart
TraceUndo == IF cursor > 1 THEN trace' = trace /\ cursor' = cursor - 1 ELSE TraceRestart
TraceRedo == IF cursor < Len(trace) THEN trace' = trace /\ cursor' = cursor + 1 ELSE TraceRestart

\* ----------------------------------------------------------------- history
\* Variants of the trimming in snapshot(), which the history bound must tell
\* from it: one drops the newest entry instead of the oldest, one drops none.
PushPastDropsNewest(past, shs) ==
    LET newPast == Append(past, shs)
    IN  IF Len(newPast) > HistoryLimit THEN SubSeq(newPast, 1, HistoryLimit) ELSE newPast

PushPastUnbounded(past, shs) == Append(past, shs)

\* snapshot(): [...past, shapes], the oldest entry dropped above the limit.
PushPast(past, shs) ==
    LET newPast == Append(past, shs)
    IN  IF Len(newPast) > HistoryLimit THEN Tail(newPast) ELSE newPast

\* A variant of snapshot() that keeps the redo entries.
SnapshotHistoryKeepsFuture(h, shs) == [past |-> PushPast(h.past, shs), future |-> h.future]

SnapshotHistory(h, shs) == [past |-> PushPast(h.past, shs), future |-> <<>>]

Snapshot ==
    /\ history' = SnapshotHistory(history, shapes)
    /\ UNCHANGED <<shapes, selectedIds, isDrawing, transformMode, nextId, linear>>
    /\ UNCHANGED <<clipboard, drawingPoints, isDragging, display>>
    /\ Track(Op("snapshot", TRUE, TRUE))
    /\ TraceSnap

\* the part of the store undo() and redo() read and write
StoreState == [shapes |-> shapes, selectedIds |-> selectedIds, history |-> history]

\* A variant of undo() that queues the replaced collection behind the redo
\* entries instead of in front of them.
UndoneQueued(st) ==
    IF Len(st.history.past) = 0 THEN st
    ELSE [shapes      |-> Last(st.history.past),
          selectedIds |-> <<>>,
          history     |-> [past   |-> SubSeq(st.history.past, 1, Len(st.history.past) - 1),
                           future |-> Append(st.history.future, st.shapes)]]

\* A variant of undo() that keeps the selection.
UndoneKeepsSelection(st) ==
    IF Len(st.history.past) = 0 THEN st
    ELSE [shapes      |-> Last(st.history.past),
          selectedIds |-> st.selectedIds,
          history     |-> [past   |-> SubSeq(st.history.past, 1, Len(st.history.past) - 1),
                           future |-> <<st.shapes>> \o st.history.future]]

\* A variant of undo() that leaves the restored collection on the undo stack.
UndoneKeepsPast(st) ==
    IF Len(st.history.past) = 0 THEN st
    ELSE [shapes      |-> Last(st.history.past),
          selectedIds |-> <<>>,
          history     |-> [past   |-> st.history.past,
                           future |-> <<st.shapes>> \o st.history.future]]

\* undo: set((state) => ...), the state it leaves
Undone(st) ==
    IF Len(st.history.past) = 0 THEN st
    ELSE [shapes      |-> Last(st.history.past),
          selectedIds |-> <<>>,
          history     |-> [past   |-> SubSeq(st.history.past, 1, Len(st.history.past) - 1),
                           future |-> <<st.shapes>> \o st.history.future]]

\* how far a run of undo() calls has come down from the newest collection
UndoWalk ==
    IF /\ Len(history.past) > 0
       /\ \/ history.future = <<>>
          \/ lastOp.name = "undo" /\ lastOp.walk = "down"
    THEN IF Len(history.past) = 1 THEN "bottom" ELSE "down"
    ELSE "other"

Undo ==
    /\ shapes' = Undone(StoreState).shapes
    /\ selectedIds' = Undone(StoreState).selectedIds
    /\ history' = Undone(StoreState).history
    /\ UNCHANGED <<isDrawing, transformMode, nextId, ops>>
    /\ UNCHANGED <<clipboard, drawingPoints, isDragging, display>>
    /\ linear' = (linear /\ Len(history.past) = 0)
    /\ IF Len(history.past) = 0 THEN TraceSame ELSE TraceUndo
    /\ Track(Op("undo", FALSE, Len(history.past) > 0)
             @@ [prev |-> IF Len(history.past) > 0 THEN <<>> ELSE Brief(lastOp),
                 walk |-> UndoWalk])

\* A variant of redo() that clears the selection before its early return.
RedoneDeselects(st) ==
    IF Len(st.history.future) = 0 THEN [st EXCEPT !.selectedIds = <<>>]
    ELSE [shapes      |-> Head(st.history.future),
          selectedIds |-> <<>>,
          history     |-> [past   |-> Append(st.history.past, st.shapes),
                           future |-> Tail(st.history.future)]]

\* redo: set((state) => ...), the state it leaves
Redone(st) ==
    IF Len(st.history.future) = 0 THEN st
    ELSE [shapes      |-> Head(st.history.future),
          selectedIds |-> <<>>,
          history     |-> [past   |-> Append(st.history.past, st.shapes),
                           future |-> Tail(st.history.future)]]

\* how far a run of redo() calls has come back up from the oldest collection
RedoWalk ==
    IF /\ Len(history.future) > 0
       /\ \/ lastOp.name = "undo" /\ lastOp.walk = "bottom"
          \/ lastOp.name = "redo" /\ lastOp.walk = "up"
    THEN IF Len(history.future) = 1 THEN "full" ELSE "up"
    ELSE "other"

Redo ==
    /\ shapes' = Redone(StoreState).shapes
    /\ selectedIds' = Redone(StoreState).selectedIds
    /\ history' = Redone(StoreState).history
    /\ UNCHANGED <<isDrawing, transformMode, nextId, ops>>
    /\ UNCHANGED <<clipboard, drawingPoints, isDragging, display>>
    /\ linear' = (linear /\ Len(history.future) = 0)
    /\ IF Len(history.future) = 0 THEN TraceSame ELSE TraceRedo
    /\ Track(Op("redo", FALSE, Len(history.future) > 0)
             @@ [prev |-> IF Len(history.future) > 0 THEN <<>> ELSE Brief(lastOp),
                 walk |-> RedoWalk])

\* A variant of resetScene() that keeps the history.
ResetSceneKeepsHistory ==
    /\ shapes' = <<DefaultBox(nextId)>>
    /\ nextId' = nextId + 1
    /\ selectedIds' = <<>>
    /\ UNCHANGED history
    /\ linear' = FALSE
    /\ UNCHANGED <<isDrawing, transformMode>>
    /\ UNCHANGED <<clipboard, drawingPoints, isDragging, display>>
    /\ ops' = ops + 1
    /\ Track(Op("resetScene", FALSE, TRUE))
    /\ TraceRestart

\* resetScene(): one default box with a fresh id, no selection, no history
ResetScene ==
    /\ shapes' = <<DefaultBox(nextId)>>
    /\ nextId' = nextId + 1
    /\ selectedIds' = <<>>
    /\ history' = [past |-> <<>>, future |-> <<>>]
    /\ linear' = FALSE
    /\ UNCHANGED <<isDrawing, transformMode>>
    /\ UNCHANGED <<clipboard, drawingPoints, isDragging, display>>
    /\ ops' = ops + 1
    /\ Track(Op("resetScene", FALSE, TRUE))
    /\ TraceRestart

\* ------------------------------------------------------------ adding shapes
\* { ...s, ...updates }
Merge(s, updates) ==
    [f \in DOMAIN s |-> IF f \in DOMAIN updates THEN updates[f] ELSE s[f]]

\* A variant of the count that counts the shapes of every type.
CountAllTypes(shs, type) == Len(shs)

CountType(shs, type) == Cardinality({i \in 1..Len(shs) : shs[i].type = type})

YPos(type) == IF type \in {"plane", "image", "tree", "model"} THEN 0 ELSE YPosDefault

NextMode(mode) == IF mode = "select" THEN "select" ELSE "translate"

\* the shape addShape(type, extraData) builds in state.shapes = shs
NewShape(shs, type, extraData, id) ==
    LET count == CountType(shs, type) + 1
        name  == IF "name" \in DOMAIN extraData THEN extraData.name ELSE Name(type, count)
    IN  Merge(Shape(id, name, type, <<0, YPos(type), 0>>), extraData)

AddShape(type, extraData) ==
    LET newShape == NewShape(shapes, type, extraData, nextId)
    IN  /\ history' = SnapshotHistory(history, shapes)
        /\ shapes' = Append(shapes, newShape)
        /\ selectedIds' = <<newShape.id>>
        /\ isDrawing' = FALSE
        /\ transformMode' = NextMode(transformMode)
        /\ nextId' = nextId + 1
        /\ UNCHANGED linear
        /\ UNCHANGED <<clipboard, drawingPoints, isDragging, display>>
        /\ Track(Op("addShape", TRUE, TRUE) @@ [type |-> type, extraData |-> extraData])
        /\ TraceSnap

\* A variant of the selection after addShapes that takes every new id.
AddShapesSelectsAll(newShapes, sel) ==
    IF Len(newShapes) > 0 THEN Ids(newShapes) ELSE sel

\* addShapes(newShapes)
AddShapesSelection(newShapes, sel) ==
    IF Len(newShapes) > 0 THEN <<Last(newShapes).id>> ELSE sel

AddShapes(newShapes) ==
    /\ history' = SnapshotHistory(history, shapes)
    /\ shapes' = shapes \o newShapes
    /\ selectedIds' = AddShapesSelection(newShapes, selectedIds)
    /\ isDrawing' = FALSE
    /\ transformMode' = NextMode(transformMode)
    /\ UNCHANGED linear
    /\ UNCHANGED <<clipboard, drawingPoints, isDragging, display>>
    /\ Track(Op("addShapes", TRUE, TRUE) @@ [newShapes |-> newShapes])
    /\ TraceSnap

\* --------------------------------------------------------------- selection
\* A variant of the filter that drops the ids before x as well.
WithoutUpTo(seq, x) ==
    LET at == CHOOSE i \in 1..Len(seq) : seq[i] = x
    IN  IF Includes(seq, x) THEN SubSeq(seq, at + 1, Len(seq)) ELSE seq

Without(seq, x) == SelectSeq(seq, LAMBDA y : y # x)

\* selectShape(id, multi), id an existing shape's id
SelectShape(id, multi) ==
    /\ selectedIds' =
          IF multi
          THEN IF Includes(selectedIds, id) THEN Without(selectedIds, id)
               ELSE Append(selectedIds, id)
          ELSE <<id>>
    /\ UNCHANGED <<shapes, history, isDrawing, transformMode, nextId, ops, linear>>
    /\ UNCHANGED <<clipboard, drawingPoints, isDragging, display>>
    /\ Track(Op("selectShape", FALSE, TRUE) @@ [id |-> id, multi |-> multi])
    /\ TraceSame

\* selectShape(null)
SelectNone ==
    /\ selectedIds' = <<>>
    /\ UNCHANGED <<shapes, history, isDrawing, transformMode, nextId, ops, linear>>
    /\ UNCHANGED <<clipboard, drawingPoints, isDragging, display>>
    /\ Track(Op("selectShape", FALSE, TRUE) @@ [id |-> NullId, multi |-> FALSE])
    /\ TraceSame

\* selectAll(): the visible, unlocked shapes
SelectAll ==
    /\ selectedIds' = Ids(SelectSeq(shapes, LAMBDA s : s.visible /\ ~s.locked))
    /\ UNCHANGED <<shapes, history, isDrawing, transformMode, nextId, ops, linear>>
    /\ UNCHANGED <<clipboard, drawingPoints, isDragging, display>>
    /\ Track(Op("selectAll", FALSE, TRUE))
    /\ TraceSame

\* ---------------------------------------------------------------- mutation
MapShapes(shs, F(_)) == [i \in 1..Len(shs) |-> F(shs[i])]

\* updateShape(id, updates): no snapshot
UpdateShape(id, updates) ==
    /\ shapes' = MapShapes(shapes, LAMBDA s : IF s.id = id THEN Merge(s, updates) ELSE s)
    /\ UNCHANGED <<selectedIds, history, isDrawing, transformMode, nextId, ops, linear>>
    /\ UNCHANGED <<clipboard, drawingPoints, isDragging, display>>
    /\ Track(Op("updateShape", FALSE, TRUE) @@ [id |-> id, updates |-> updates])
    /\ TraceMutate

\* A variant of the visibility toggle that flips the flag of every shape.
VisibilityToggledEverywhere(shs, id) ==
    MapShapes(shs, LAMBDA s : [s EXCEPT !.visible = ~s.visible])

\* shapes.map(s => s.id === id ? { ...s, visible: !s.visible } : s)
VisibilityToggled(shs, id) ==
    MapShapes(shs, LAMBDA s : IF s.id = id THEN [s EXCEPT !.visible = ~s.visible] ELSE s)

\* shapes.map(s => s.id === id ? { ...s, locked: !s.locked } : s)
LockToggled(shs, id) ==
    MapShapes(shs, LAMBDA s : IF s.id = id THEN [s EXCEPT !.locked = ~s.locked] ELSE s)

\* shapes.map(s => s.id === id ? { ...s, collapsed: !s.collapsed } : s)
CollapseToggled(shs, id) ==
    MapShapes(shs, LAMBDA s : IF s.id = id THEN [s EXCEPT !.collapsed = ~s.collapsed] ELSE s)

\* what a toggle leaves alone: everything but the collection
ToggleFrame ==
    /\ UNCHANGED <<selectedIds, history, isDrawing, transformMode, nextId, ops, linear>>
    /\ UNCHANGED <<clipboard, drawingPoints, isDragging, display>>
    /\ TraceMutate

\* toggleShapeVisibility(id): no snapshot
ToggleShapeVisibility(id) ==
    /\ shapes' = VisibilityToggled(shapes, id)
    /\ Track(Op("toggleShapeVisibility", FALSE, TRUE) @@ [id |-> id])
    /\ ToggleFrame

\* toggleShapeLock(id): no snapshot
ToggleShapeLock(id) ==
    /\ shapes' = LockToggled(shapes, id)
    /\ Track(Op("toggleShapeLock", FALSE, TRUE) @@ [id |-> id])
    /\ ToggleFrame

\* toggleGroupCollapse(id): no snapshot
ToggleGroupCollapse(id) ==
    /\ shapes' = CollapseToggled(shapes, id)
    /\ Track(Op("toggleGroupCollapse", FALSE, TRUE) @@ [id |-> id])
    /\ ToggleFrame

\* ------------------------------------------------------------------ delete
\* Variants of findDescendants, which the cascade must tell from it: one
\* stops at the direct children, one finds nothing.
FindChildren(shs, parentId) ==
    {shs[i].id : i \in {j \in 1..Len(shs) : shs[j].parentId = parentId}}

FindNothing(shs, parentId) == {}

\* findDescendants(parentId): the ids it adds to idsToDelete
RECURSIVE FindDescendants(_, _)
FindDescendants(shs, parentId) ==
    UNION { {shs[i].id} \cup FindDescendants(shs, shs[i].id) :
            i \in {j \in 1..Len(shs) : shs[j].parentId = parentId} }

\* findDescendants(parentId): the shapes it visits, one entry per call it
\* makes on a child, in the order of the calls.  depth is the number of
\* nested calls still allowed: a search that would nest deeper than that ends
\* with the entry Unfinished, as a search that never returns would.
RECURSIVE VisitsFrom(_, _, _, _)
VisitsFrom(shs, parentId, i, depth) ==
    IF i > Len(shs) THEN <<>>
    ELSE (IF shs[i].parentId # parentId THEN <<>>
          ELSE IF depth = 0 THEN <<Unfinished>>
          ELSE <<shs[i].id>> \o VisitsFrom(shs, shs[i].id, 1, depth - 1))
         \o VisitsFrom(shs, parentId, i + 1, depth)

Visits(shs, parentId) == VisitsFrom(shs, parentId, 1, Len(shs))

IdsToDelete(shs, sel) ==
    Range(sel) \cup UNION { FindDescendants(shs, id) : id \in Range(sel) }

DeleteSelected ==
    /\ history' = SnapshotHistory(history, shapes)
    /\ shapes' = SelectSeq(shapes, LAMBDA s : s.id \notin IdsToDelete(shapes, selectedIds))
    /\ selectedIds' = <<>>
    /\ UNCHANGED <<isDrawing, transformMode, nextId, linear>>
    /\ UNCHANGED <<clipboard, drawingPoints, isDragging, display>>
    /\ Track(Op("deleteSelected", TRUE, TRUE) @@ [before |-> Before])
    /\ TraceSnap

\* --------------------------------------------------------------- duplicate
Find(shs, id) == SelectSeq(shs, LAMBDA s : s.id = id)

Children(shs, id) == SelectSeq(shs, LAMBDA s : s.parentId = id)

CopyName(name) == [name EXCEPT !.copies = @ + 1]

\* A variant of the clone that applies the offset whatever withOffset says.
CloneOffsetsAlways(item, newId, withOffset) ==
    [item EXCEPT !.id = newId,
                 !.name = CopyName(item.name),
                 !.position = <<FAdd(item.position[1], DuplicateOffset), item.position[2],
                                FAdd(item.position[3], DuplicateOffset)>>]

Clone(item, newId, withOffset) ==
    LET offset == IF withOffset THEN DuplicateOffset ELSE 0
    IN  [item EXCEPT !.id = newId,
                     !.name = CopyName(item.name),
                     !.position = <<FAdd(item.position[1], offset), item.position[2],
                                    FAdd(item.position[3], offset)>>]

\* A variant of the child clones that leaves each child under its old group.
ChildClonesKeepParent(children, newParent, id) ==
    [i \in 1..Len(children) |-> [children[i] EXCEPT !.id = id + i - 1]]

\* A variant of the child clones that keeps each child's id.
ChildClonesKeepIds(children, newParent, id) ==
    [i \in 1..Len(children) |-> [children[i] EXCEPT !.parentId = newParent]]

\* the clones of a group's direct children: ids id, id + 1, ... in order
ChildClones(children, newParent, id) ==
    [i \in 1..Len(children) |->
        [children[i] EXCEPT !.id = id + i - 1, !.parentId = newParent]]

\* itemsToClone.forEach: what it appends to newShapes, and the ids it pushes
RECURSIVE DuplicateItems(_, _, _, _)
DuplicateItems(items, shs, id, withOffset) ==
    IF items = <<>> THEN [shapes |-> <<>>, newIds |-> <<>>, next |-> id]
    ELSE LET item  == Head(items)
             clone == Clone(item, id, withOffset)
             kids  == IF item.type = "group"
                      THEN ChildClones(Children(shs, item.id), id, id + 1)
                      ELSE <<>>
             rest  == DuplicateItems(Tail(items), shs, id + 1 + Len(kids), withOffset)
         IN  [shapes |-> <<clone>> \o kids \o rest.shapes,
              newIds |-> <<id>> \o rest.newIds,
              next   |-> rest.next]

SelectedShapes(shs, sel) == SelectSeq(shs, LAMBDA s : Includes(sel, s.id))

\* the part of the store duplicateSelected(), copy() and paste() read and
\* write, with the value uuidv4() returns next
AppState ==
    [shapes |-> shapes, selectedIds |-> selectedIds, clipboard |-> clipboard,
     history |-> history, nextId |-> nextId]

Apply(st) ==
    /\ shapes' = st.shapes
    /\ selectedIds' = st.selectedIds
    /\ clipboard' = st.clipboard
    /\ history' = st.history
    /\ nextId' = st.nextId

\* duplicateSelected(withOffset): the state it leaves
Duplicated(st, withOffset) ==
    IF Len(st.selectedIds) = 0 THEN st
    ELSE LET d == DuplicateItems(SelectedShapes(st.shapes, st.selectedIds), st.shapes,
                                 st.nextId, withOffset)
         IN  [st EXCEPT !.history = SnapshotHistory(st.history, st.shapes),
                        !.shapes = st.shapes \o d.shapes,
                        !.selectedIds = d.newIds,
                        !.nextId = d.next]

DuplicateSelected(withOffset) ==
    /\ Track(Op("duplicateSelected", Len(selectedIds) > 0, Len(selectedIds) > 0)
             @@ [withOffset |-> withOffset])
    /\ UNCHANGED <<isDrawing, transformMode, linear>>
    /\ UNCHANGED <<drawingPoints, isDragging, display>>
    /\ Apply(Duplicated(AppState, withOffset))
    /\ IF Len(selectedIds) = 0 THEN UNCHANGED ops /\ TraceSame ELSE TraceSnap

\* --------------------------------------------------------------- clipboard
\* copy(): the state it leaves; the clipboard takes the first selected id's shape
Copied(st) ==
    IF Len(st.selectedIds) = 0 THEN st
    ELSE LET shape == Find(st.shapes, st.selectedIds[1])
         IN  IF shape = <<>> THEN st ELSE [st EXCEPT !.clipboard = <<Head(shape)>>]

Copy ==
    /\ Apply(Copied(AppState))
    /\ UNCHANGED <<isDrawing, transformMode, drawingPoints, isDragging, display, ops, linear>>
    /\ Track(Op("copy", FALSE, Len(selectedIds) > 0))
    /\ TraceSame

\* A variant of paste() that inserts a copy of the clipboard's shape.
PastedFromClipboard(st) ==
    IF st.clipboard = <<>> THEN st
    ELSE [st EXCEPT !.history = SnapshotHistory(st.history, st.shapes),
                    !.shapes = Append(st.shapes, Clone(Head(st.clipboard), st.nextId, TRUE)),
                    !.selectedIds = <<st.nextId>>,
                    !.nextId = st.nextId + 1]

\* paste(): get().duplicateSelected(true)
Pasted(st) == Duplicated(st, TRUE)

Paste ==
    /\ Apply(Pasted(AppState))
    /\ UNCHANGED <<isDrawing, transformMode, drawingPoints, isDragging, display, linear>>
    /\ Track(Op("paste", Pasted(AppState) # AppState, Pasted(AppState) # AppState))
    /\ IF Pasted(AppState) = AppState THEN UNCHANGED ops /\ TraceSame ELSE TraceSnap

\* ------------------------------------------------------------------- group
RECURSIVE SumPositions(_)
SumPositions(shs) ==
    IF shs = <<>> THEN <<0, 0, 0>>
    ELSE VAdd(SumPositions(SubSeq(shs, 1, Len(shs) - 1)), Last(shs).position)

\* centroid.add(...) over the selected shapes, then divideScalar(length).
\* groupSelected() gets here with two or more ids selected; every operation
\* that removes shapes clears the selection, so selectedShapes is not empty.
Centroid(selectedShapes) == VDivScalar(SumPositions(selectedShapes), Len(selectedShapes))

\* A variant of the group shape that names itself as its parent.
GroupShapeOwnParent(id, centroid) ==
    [Shape(id, Name("Group", 0), "group", centroid) EXCEPT !.parentId = id]

GroupShape(id, centroid) ==
    Shape(id, Name("Group", 0), "group", centroid)

\* a selected shape, moved into the group's frame
Reparent(s, groupId, centroid) ==
    [s EXCEPT !.parentId = groupId, !.position = VSub(s.position, centroid)]

GroupSelected ==
    /\ Track(Op("groupSelected", Len(selectedIds) >= 2, Len(selectedIds) >= 2)
             @@ [before |-> Before])
    /\ UNCHANGED <<isDrawing, transformMode, linear>>
    /\ UNCHANGED <<clipboard, drawingPoints, isDragging, display>>
    /\ IF Len(selectedIds) < 2
       THEN /\ UNCHANGED <<shapes, selectedIds, history, nextId, ops>>
            /\ TraceSame
       ELSE LET centroid == Centroid(SelectedShapes(shapes, selectedIds))
                groupId  == nextId
                updatedShapes ==
                    MapShapes(shapes, LAMBDA s : IF Includes(selectedIds, s.id)
                                                 THEN Reparent(s, groupId, centroid)
                                                 ELSE s)
            IN  /\ history' = SnapshotHistory(history, shapes)
                /\ shapes' = Append(updatedShapes, GroupShape(groupId, centroid))
                /\ selectedIds' = <<groupId>>
                /\ nextId' = nextId + 1
                /\ TraceSnap

\* ----------------------------------------------------------------- ungroup
\* A variant of ungroupSelected() that makes each child its own parent.
UnparentToItself(s, groupPos) ==
    [s EXCEPT !.parentId = s.id, !.position = VAdd(s.position, groupPos)]

\* A variant of ungroupSelected() that leaves a child's position as it is.
UnparentInPlace(s, groupPos) == [s EXCEPT !.parentId = NoParent]

\* a direct child, moved back out of the group's frame
Unparent(s, groupPos) ==
    [s EXCEPT !.parentId = NoParent, !.position = VAdd(s.position, groupPos)]

\* A variant of the early returns that does not look at the shape's type.
UngroupReturnsAnyType(shs, sel) ==
    \/ Len(sel) # 1
    \/ Find(shs, sel[1]) = <<>>

\* the early returns of ungroupSelected()
UngroupReturns(shs, sel) ==
    \/ Len(sel) # 1
    \/ Find(shs, sel[1]) = <<>>
    \/ Head(Find(shs, sel[1])).type # "group"

\* ungroupSelected() dissolves the group the previous operation made
UngroupsLast ==
    /\ lastOp.name = "groupSelected" /\ lastOp.acted
    /\ ~UngroupReturns(shapes, selectedIds)

UngroupSelected ==
    /\ Track(Op("ungroupSelected", ~UngroupReturns(shapes, selectedIds),
                ~UngroupReturns(shapes, selectedIds))
             @@ [before |-> Before,
                 roundTrip |-> UngroupsLast,
                 origin |-> IF UngroupsLast THEN lastOp.before ELSE Before])
    /\ UNCHANGED <<isDrawing, transformMode, nextId, linear>>
    /\ UNCHANGED <<clipboard, drawingPoints, isDragging, display>>
    /\ IF UngroupReturns(shapes, selectedIds)
       THEN /\ UNCHANGED <<shapes, selectedIds, history, ops>>
            /\ TraceSame
       ELSE LET group == Head(Find(shapes, selectedIds[1]))
                mapped == MapShapes(shapes, LAMBDA s : IF s.parentId = group.id
                                                       THEN Unparent(s, group.position)
                                                       ELSE s)
            IN  /\ history' = SnapshotHistory(history, shapes)
                /\ shapes' = SelectSeq(mapped, LAMBDA s : s.id # group.id)
                /\ selectedIds' = Ids(Children(shapes, group.id))
                /\ TraceSnap

\* ------------------------------------------------------------------ import
\* handleModelUpload reads a file: the nodes processNode meets, in order.  A
\* node the editor exported carries userData.shapeData; the export writes the
\* parentless shapes as the top nodes and processNode does not descend below
\* a node that carries shapeData.  Any other mesh becomes a 'model' shape.
ArchNode(shapeData) == [isArchMass |-> TRUE, shapeData |-> shapeData]
MeshNode(position) == [isArchMass |-> FALSE, position |-> position]

ExportedBox == ArchNode(DefaultBox(DefaultBoxId))
ExportedGroup == ArchNode(Shape(DefaultBoxId + 1, Name("Group", 0), "group", <<0, 0, 0>>))

MeshFile == <<MeshNode(<<1, 0, 0>>), MeshNode(<<36, 0, 0>>)>>

ImportFiles == { <<>>, <<ExportedBox, ExportedGroup>> }

\* processNode over the nodes: newShapes, ids id, id + 1, ... in order
RECURSIVE ProcessNodes(_, _)
ProcessNodes(nodes, id) ==
    IF nodes = <<>> THEN <<>>
    ELSE LET done == ProcessNodes(SubSeq(nodes, 1, Len(nodes) - 1), id)
             node == Last(nodes)
             newId == id + Len(done)
         IN  Append(done,
                    IF node.isArchMass
                    THEN [node.shapeData EXCEPT !.id = newId]
                    ELSE Shape(newId, Name("Part", Len(done) + 1), "model", node.position))

ImportModel(file) ==
    LET newShapes == ProcessNodes(file, nextId)
    IN  IF Len(newShapes) > 0
        THEN AddShapes(newShapes) /\ nextId' = nextId + Len(newShapes)
        ELSE AddShape("model", [name |-> Name("file", 0)])

\* ------------------------------------------------------------------ render
\* ShapeMesh renders a group's children inside the group's own <group
\* position=...>: a shape's world position is its position plus the
\* positions of its ancestor groups.
RECURSIVE WorldPosition(_, _)
WorldPosition(shs, s) ==
    IF s.parentId = NoParent \/ Find(shs, s.parentId) = <<>> THEN s.position
    ELSE LET w == WorldPosition(shs, Head(Find(shs, s.parentId)))
         IN  <<s.position[1] + w[1], s.position[2] + w[2], s.position[3] + w[3]>>

\* ------------------------------------------------------------------- tools
TransformModes == {"translate", "rotate", "scale", "pushpull", "select"}

\* setTransformMode(mode)
SetTransformMode(mode) ==
    /\ transformMode' = mode
    /\ isDrawing' = FALSE
    /\ UNCHANGED <<shapes, selectedIds, history, clipboard, drawingPoints, isDragging, display,
                   nextId, ops, linear>>
    /\ Track(Op("setTransformMode", FALSE, TRUE))
    /\ TraceSame

\* --------------------------------------------------------------- digitizer
\* setIsDrawing(isDrawing): also empties the point buffer and the selection
SetIsDrawing(b) ==
    /\ isDrawing' = b
    /\ drawingPoints' = <<>>
    /\ selectedIds' = <<>>
    /\ UNCHANGED <<shapes, history, transformMode, clipboard, isDragging, display, nextId, ops, linear>>
    /\ Track(Op("setIsDrawing", FALSE, TRUE) @@ [isDrawing |-> b])
    /\ TraceSame

\* A variant of the distance test with a threshold of one unit.
TooCloseWithinOne(point, last) ==
    LET dx == point[1] - last[1]
        dz == point[3] - last[3]
    IN  dx * dx + dz * dz < 16

\* dist < 0.01 on the XZ plane, for coordinates in quarter units:
\* sqrt(dx^2 + dz^2) / 4 < 1 / 100
TooClose(point, last) ==
    LET dx == point[1] - last[1]
        dz == point[3] - last[3]
    IN  10000 * (dx * dx + dz * dz) < 16

\* addDrawingPoint(point): a point on the last point is dropped
AddDrawingPoint(point) ==
    /\ drawingPoints' = IF Len(drawingPoints) > 0 /\ TooClose(point, Last(drawingPoints))
                         THEN drawingPoints
                         ELSE Append(drawingPoints, point)
    /\ UNCHANGED <<shapes, selectedIds, history, isDrawing, transformMode, clipboard,
                   isDragging, display, nextId, ops, linear>>
    /\ Track(Op("addDrawingPoint", FALSE, drawingPoints' # drawingPoints)
             @@ [point |-> point])
    /\ TraceSame

\* A variant of the guard of finishDrawing() that lets two points through.
FinishReturnsBelowTwo(points) == Len(points) < 2

\* A variant of the guard of finishDrawing() that stops an empty buffer only.
FinishReturnsOnEmpty(points) == Len(points) < 1

\* if (drawingPoints.length < 3) return;
FinishReturns(points) == Len(points) < 3

SetMin(S) == CHOOSE x \in S : \A y \in S : x <= y
SetMax(S) == CHOOSE x \in S : \A y \in S : x >= y

RECURSIVE SumCoordinates(_, _)
SumCoordinates(points, k) ==
    IF points = <<>> THEN 0
    ELSE FAdd(SumCoordinates(SubSeq(points, 1, Len(points) - 1), k), Last(points)[k])

\* A variant of the anchor: the mean of the points.
BoundsCenterMean(points) ==
    <<FDivScalar(SumCoordinates(points, 1), Len(points)), 0,
      FDivScalar(SumCoordinates(points, 3), Len(points))>>

\* the middle of the bounding box of the points on the XZ plane
BoundsCenter(points) ==
    LET xs == {points[i][1] : i \in 1..Len(points)}
        zs == {points[i][3] : i \in 1..Len(points)}
    IN  <<FDivScalar(FAdd(SetMin(xs), SetMax(xs)), 2), 0,
          FDivScalar(FAdd(SetMin(zs), SetMax(zs)), 2)>>

\* drawingPoints.map(p => [p[0] - centerX, 0, p[2] - centerZ])
NormalizedPoints(points, center) ==
    [i \in 1..Len(points) |->
        <<FSub(points[i][1], center[1]), 0, FSub(points[i][3], center[3])>>]

\* A variant of the new surface that numbers it after all the shapes.
SurfaceShapeCountsShapes(shs, points, id) ==
    LET center == BoundsCenter(points)
    IN  [Shape(id, Name("Surface", Len(shs) + 1), "custom", center)
            EXCEPT !.points = NormalizedPoints(points, center)]

\* the 'custom' shape finishDrawing() creates
SurfaceShape(shs, points, id) ==
    LET center == BoundsCenter(points)
    IN  [Shape(id, Name("Surface", CountType(shs, "custom") + 1), "custom", center)
            EXCEPT !.points = NormalizedPoints(points, center)]

\* finishDrawing()
FinishDrawing ==
    /\ Track(Op("finishDrawing", ~FinishReturns(drawingPoints), ~FinishReturns(drawingPoints)))
    /\ UNCHANGED <<transformMode, clipboard, isDragging, display, linear>>
    /\ IF FinishReturns(drawingPoints)
       THEN /\ UNCHANGED <<shapes, selectedIds, history, isDrawing, drawingPoints, nextId, ops>>
            /\ TraceSame
       ELSE /\ history' = SnapshotHistory(history, shapes)
            /\ shapes' = Append(shapes, SurfaceShape(shapes, drawingPoints, nextId))
            /\ selectedIds' = <<nextId>>
            /\ isDrawing' = FALSE
            /\ drawingPoints' = <<>>
            /\ nextId' = nextId + 1
            /\ TraceSnap

\* cancelDrawing()
CancelDrawing ==
    /\ isDrawing' = FALSE
    /\ drawingPoints' = <<>>
    /\ UNCHANGED <<shapes, selectedIds, history, transformMode, clipboard, isDragging, display,
                   nextId, ops, linear>>
    /\ Track(Op("cancelDrawing", FALSE, TRUE))
    /\ TraceSame

\* ------------------------------------------------------------------ camera
ViewTypes == {"iso", "axo", "top", "bottom", "front", "back", "left", "right"}

\* A variant of the view mode of a request: perspective for iso alone.
ViewModeForIsoOnly(type) ==
    IF type = "iso" THEN "perspective" ELSE "orthographic"

\* (type === 'iso' || type === 'axo') ? 'perspective' : 'orthographic'
ViewModeFor(type) ==
    IF type = "iso" \/ type = "axo" THEN "perspective" ELSE "orthographic"

\* requestCameraView(type): a request with an id from uuidv4()
RequestCameraView(type) ==
    /\ cameraRequest' = <<[id |-> nextId, type |-> type]>>
    /\ viewMode' = ViewModeFor(type)
    /\ nextId' = nextId + 1
    /\ requested' = requested \cup {nextId}
    /\ UNCHANGED <<shapes, selectedIds, history, isDrawing, transformMode, clipboard,
                   drawingPoints, isDragging, sunSettings, scene, box, ops, linear>>
    /\ Track(Op("requestCameraView", FALSE, TRUE)
             @@ [type |-> type,
                 again |-> cameraRequest # <<>> /\ Head(cameraRequest).type = type])
    /\ TraceSame

\* setViewMode(mode)
SetViewMode(mode) ==
    /\ viewMode' = mode
    /\ UNCHANGED <<shapes, selectedIds, history, isDrawing, transformMode, clipboard,
                   drawingPoints, isDragging, cameraRequest, requested, sunSettings,
                   scene, box, nextId, ops, linear>>
    /\ Track(Op("setViewMode", FALSE, TRUE))
    /\ TraceSame

\* ------------------------------------------------------------------ export
\* SceneContent's export effect, run after the render that follows a store
\* operation: React runs it when one of its dependencies (exportRequested,
\* backgroundColor, the grid settings, sunSettings) is not the value of the
\* previous render, and it writes a file when exportRequested is not 0.
\* changed: a dependency has changed.
ExportEffect(changed) ==
    exported' = IF changed /\ exportRequested' # 0 THEN exported + 1 ELSE exported

\* triggerExport()
TriggerExport ==
    /\ exportRequested' = exportRequested + 1
    /\ UNCHANGED <<shapes, selectedIds, history, isDrawing, transformMode, clipboard,
                   drawingPoints, isDragging, viewMode, cameraRequest, requested,
                   sunSettings, backgroundColor, gridVisible, box, nextId, ops, linear>>
    /\ ExportEffect(TRUE)
    /\ Track(Op("triggerExport", FALSE, TRUE))
    /\ TraceSame

\* setBackgroundColor(color)
SetBackgroundColor(color) ==
    /\ backgroundColor' = color
    /\ UNCHANGED <<shapes, selectedIds, history, isDrawing, transformMode, clipboard,
                   drawingPoints, isDragging, viewMode, cameraRequest, requested,
                   sunSettings, exportRequested, gridVisible, box, nextId, ops, linear>>
    /\ ExportEffect(color # backgroundColor)
    /\ Track(Op("setBackgroundColor", FALSE, color # backgroundColor))
    /\ TraceSame

\* setGridVisible(visible)
SetGridVisible(visible) ==
    /\ gridVisible' = visible
    /\ UNCHANGED <<shapes, selectedIds, history, isDrawing, transformMode, clipboard,
                   drawingPoints, isDragging, viewMode, cameraRequest, requested,
                   sunSettings, exportRequested, backgroundColor, box, nextId, ops, linear>>
    /\ ExportEffect(visible # gridVisible)
    /\ Track(Op("setGridVisible", FALSE, visible # gridVisible))
    /\ TraceSame

\* --------------------------------------------------------------------- sun
\* setSunSettings(settings): the merged settings are a new object, which the
\* export effect takes for a changed dependency whatever the values
SetSunSettings(settings) ==
    /\ sunSettings' = Merge(sunSettings, settings)
    /\ UNCHANGED <<shapes, selectedIds, history, isDrawing, transformMode, clipboard,
                   drawingPoints, isDragging, viewMode, cameraRequest, requested,
                   exportRequested, backgroundColor, gridVisible, box, nextId, ops, linear>>
    /\ ExportEffect(TRUE)
    /\ Track(Op("setSunSettings", FALSE, TRUE))
    /\ TraceSame

\* SunPathDiagram: utcHour = time - Math.round(longitude / 15)
UtcHour(settings) ==
    settings.time - Micro * ((2 * settings.longitude + 15 * Micro) \div (30 * Micro))

\* (360 / 365) * (date - 81), in degrees
YearAngle(date) == 986301 * (date - 81)

\* A variant of the declination that counts the days from day 80.
DeclinationFromDay80(date) == MulS(23450000, Sin(ToRad(986301 * (date - 80))))

\* 23.45 * Math.sin(toRad((360 / 365) * (date - 81)))
Declination(date) == MulS(23450000, Sin(ToRad(YearAngle(date))))

\* 9.87 * Math.sin(2 * B) - 7.53 * Math.cos(B) - 1.5 * Math.sin(B), in minutes
EquationOfTime(date) ==
    LET B == ToRad(YearAngle(date))
    IN  MulS(9870000, Sin(2 * B)) - MulS(7530000, Cos(B)) - MulS(1500000, Sin(B))

\* 15 * (localSolarTime - 12), in degrees from solar noon
TimeOffset(lon, date, utcHour) ==
    15 * (utcHour + RoundDiv(lon, 15) + RoundDiv(EquationOfTime(date), 60) - 12 * Micro)

\* getSunPosition(lat, lon, date, utcHour).  nan: the azimuth is 0 / 0, when
\* the sun is at the zenith, and x and z with it.
GetSunPosition(lat, lon, date, utcHour) ==
    LET declination == Declination(date)
        timeOffset  == TimeOffset(lon, date, utcHour)
        sinLat == Sin(ToRad(lat))
        cosLat == Cos(ToRad(lat))
        sinDec == Sin(ToRad(declination))
        cosDec == Cos(ToRad(declination))
        cosOff == Cos(ToRad(timeOffset))
        sinAlt == MulS(sinLat, sinDec) + MulS(MulS(cosLat, cosDec), cosOff)
        alt    == Asin(sinAlt)
        cosAlt == Cos(alt)
        num    == MulS(sinDec, cosLat) - MulS(MulS(cosDec, sinLat), cosOff)
        nan    == cosAlt = 0 /\ num = 0
        acosAz == IF cosAlt = 0 THEN (IF num < 0 THEN Pi ELSE 0)
                  ELSE Acos(ClampedRatio(num, cosAlt))
        az     == IF Sin(ToRad(timeOffset)) > 0 THEN TwoPi - acosAz ELSE acosAz
    IN  [altitude |-> alt, azimuth |-> az, declination |-> declination, nan |-> nan,
         x |-> MulS(Sin(az), cosAlt), y |-> Sin(alt), z |-> MulS(Cos(az), cosAlt)]

\* SunPathDiagram: sunPos
SunPos ==
    GetSunPosition(sunSettings.latitude, sunSettings.longitude, sunSettings.date,
                   UtcHour(sunSettings))

\* ---------------------------------------------------------------- gestures
\* what a gesture starts from: the collection and the undo entries
GestureStart == [shapes |-> shapes, past |-> history.past]

\* Controls: the shape the transform gizmo is attached to, if any
ActiveShape ==
    IF transformMode # "select" /\ Len(selectedIds) = 1 /\ ~isDrawing
    THEN SelectSeq(Find(shapes, selectedIds[1]), LAMBDA s : s.visible /\ ~s.locked)
    ELSE <<>>

\* TransformControls.onMouseDown; the gizmo has handles in the three
\* transform modes.  An Alt-drag calls duplicateSelected(false) first.
GizmoDown(alt) ==
    LET st == IF alt THEN Duplicated(AppState, FALSE) ELSE AppState
        t1 == IF alt
              THEN KeepLast(Append(SubSeq(trace, 1, cursor), st.shapes), HistoryLimit + 1)
              ELSE SubSeq(trace, 1, cursor)
    IN  /\ ActiveShape # <<>>
        /\ transformMode \in {"translate", "rotate", "scale"}
        /\ shapes' = st.shapes
        /\ selectedIds' = st.selectedIds
        /\ nextId' = st.nextId
        /\ history' = SnapshotHistory(st.history, st.shapes)
        /\ UNCHANGED <<isDrawing, transformMode, clipboard, drawingPoints, isDragging, display, linear>>
        /\ Track(Op("gizmoDown", TRUE, TRUE) @@ [gesture |-> GestureStart, alt |-> alt])
        /\ trace' = KeepLast(Append(t1, st.shapes), HistoryLimit + 1)
        /\ cursor' = Len(trace')
        /\ ops' = ops + (IF alt THEN 2 ELSE 1)

\* TransformControls.onObjectChange during the drag
GizmoChange(position) ==
    /\ lastOp.name \in {"gizmoDown", "gizmoChange"}
    /\ ActiveShape # <<>>
    /\ shapes' = MapShapes(shapes, LAMBDA s : IF s.id = Head(ActiveShape).id
                                               THEN Merge(s, [position |-> position])
                                               ELSE s)
    /\ UNCHANGED <<selectedIds, history, isDrawing, transformMode, clipboard,
                   drawingPoints, isDragging, display, nextId, ops, linear>>
    /\ Track(Op("gizmoChange", FALSE, TRUE) @@ [gesture |-> lastOp.gesture, alt |-> lastOp.alt])
    /\ TraceMutate

\* --------------------------------------------------------- specifications
AddTypes == {"box"}
PosInputs == { <<36, 0, 0>> }
DupOffsets == {TRUE}

ShapeIds == Range(Ids(shapes))

\* a click on a shape; a shift-click that extends the selection is offered
\* while the selection is shorter than MaxSelected
Click(id, multi) ==
    /\ multi /\ ~Includes(selectedIds, id) => Len(selectedIds) < MaxSelected
    /\ SelectShape(id, multi)

\* ShapeMesh.handlePointerDown: a click on the shape's mesh; it returns at
\* once on a hidden or locked shape.  In push/pull mode the press selects
\* the shape alone and takes the snapshot of the gesture.
HandlePointerDown(id, isMulti) ==
    /\ \E i \in 1..Len(shapes) : shapes[i].id = id /\ shapes[i].visible /\ ~shapes[i].locked
    /\ IF transformMode = "pushpull"
       THEN /\ selectedIds' = <<id>>
            /\ history' = SnapshotHistory(history, shapes)
            /\ isDragging' = TRUE
            /\ UNCHANGED <<shapes, isDrawing, transformMode, clipboard, drawingPoints,
                           display, nextId, linear>>
            /\ Track(Op("pushPullPress", TRUE, TRUE) @@ [gesture |-> GestureStart])
            /\ TraceSnap
       ELSE Click(id, isMulti)

\* ------------------------------------------------------------ box selector
\* pos.project(camera), then CSS pixels: the camera looks at the origin along
\* -Z, ScreenWidth by ScreenHeight pixels, PixelsPerQuarter pixels to a
\* quarter unit.
Project(position) ==
    <<ScreenWidth \div 2 + PixelsPerQuarter * position[1],
      ScreenHeight \div 2 - PixelsPerQuarter * position[2]>>

Least(a, b) == IF a < b THEN a ELSE b
Greatest(a, b) == IF a < b THEN b ELSE a

\* onPointerUp: startX, endX, startY, endY
Rectangle(start, end) ==
    [startX |-> Least(start[1], end[1]), endX |-> Greatest(start[1], end[1]),
     startY |-> Least(start[2], end[2]), endY |-> Greatest(start[2], end[2])]

\* the threshold that tells a drag from a click
IsDrag(r) == r.endX - r.startX > DragThreshold \/ r.endY - r.startY > DragThreshold

\* onPointerUp: newSelection
BoxSelection(shs, r) ==
    Ids(SelectSeq(shs, LAMBDA s :
            /\ s.visible /\ ~s.locked
            /\ Project(s.position)[1] >= r.startX /\ Project(s.position)[1] <= r.endX
            /\ Project(s.position)[2] >= r.startY /\ Project(s.position)[2] <= r.endY))

\* what the effect of BoxSelector closes over when it runs now
Closure ==
    [transformMode |-> transformMode, isSelecting |-> isSelecting,
     startPoint |-> startPoint, endPoint |-> endPoint, shapes |-> shapes]

\* the dependencies of the effect that the model follows: transformMode,
\* isSelecting, startPoint, shapes.  endPoint is not among them.
EffectCurrent ==
    /\ listener.transformMode = transformMode
    /\ listener.isSelecting = isSelecting
    /\ listener.startPoint = startPoint
    /\ listener.shapes = shapes

\* the listeners are on the canvas and the window
Listening == listener.transformMode = "select"

\* After a render in which a dependency has changed, React runs the effect
\* again: the old listeners are removed and, in select mode, new ones are
\* registered that see the state of that render.
RunEffect ==
    /\ ~EffectCurrent
    /\ listener' = Closure
    /\ UNCHANGED <<shapes, selectedIds, history, isDrawing, transformMode, clipboard,
                   drawingPoints, isDragging, panels, isSelecting, startPoint, endPoint,
                   pointerHeld, nextId, lastOp, ops, linear>>
    /\ TraceSame

\* onPointerDown: the left button goes down on the canvas at point
CanvasPointerDown(point) ==
    /\ Listening
    /\ ~pointerHeld
    /\ pointerHeld' = TRUE
    /\ isSelecting' = TRUE
    /\ isDragging' = TRUE
    /\ startPoint' = <<point>>
    /\ endPoint' = <<point>>
    /\ UNCHANGED <<shapes, selectedIds, history, isDrawing, transformMode, clipboard,
                   drawingPoints, panels, listener, nextId, ops, linear>>
    /\ Track(Op("pointerDown", FALSE, TRUE) @@ [point |-> point])
    /\ TraceSame

\* onPointerMove: the pointer moves to point
PointerMove(point) ==
    /\ Listening
    /\ endPoint' = IF listener.isSelecting THEN <<point>> ELSE endPoint
    /\ UNCHANGED <<shapes, selectedIds, history, isDrawing, transformMode, clipboard,
                   drawingPoints, isDragging, panels, isSelecting, startPoint, listener,
                   pointerHeld, nextId, ops, linear>>
    /\ Track(Op("pointerMove", FALSE, listener.isSelecting) @@ [point |-> point])
    /\ TraceSame

\* onPointerUp returns at once
PointerUpReturns ==
    \/ ~Listening
    \/ ~listener.isSelecting
    \/ listener.startPoint = <<>>
    \/ listener.endPoint = <<>>

\* the left button is released: onPointerUp when the listeners are
\* registered, nothing otherwise
PointerUp ==
    /\ pointerHeld
    /\ pointerHeld' = FALSE
    /\ IF PointerUpReturns
       THEN /\ UNCHANGED <<selectedIds, isDragging, isSelecting, startPoint, endPoint>>
            /\ Track(Op("pointerUp", FALSE, FALSE) @@ [selected |-> FALSE])
       ELSE LET r == Rectangle(Head(listener.startPoint), Head(listener.endPoint))
            IN  /\ selectedIds' = IF IsDrag(r) THEN BoxSelection(listener.shapes, r)
                                  ELSE selectedIds
                /\ isSelecting' = FALSE
                /\ isDragging' = FALSE
                /\ startPoint' = <<>>
                /\ endPoint' = <<>>
                /\ Track(Op("pointerUp", FALSE, TRUE) @@ [selected |-> IsDrag(r)])
    /\ UNCHANGED <<shapes, history, isDrawing, transformMode, clipboard, drawingPoints,
                   panels, listener, nextId, ops, linear>>
    /\ TraceSame

\* The scene engine: every operation that creates or removes shapes, with
\* undo, redo and reset.
Next ==
    \/ \E t \in AddTypes : ops < MaxOps /\ Len(shapes) < MaxShapes /\ AddShape(t, <<>>)
    \/ \E f \in ImportFiles : ops < MaxOps /\ Len(shapes) < MaxShapes /\ ImportModel(f)
    \/ \E id \in ShapeIds, multi \in BOOLEAN : Click(id, multi)
    \/ ops < MaxOps /\ Snapshot
    \/ ops < MaxOps /\ DeleteSelected
    \/ \E w \in DupOffsets : ops < MaxOps /\ Len(shapes) < MaxShapes /\ DuplicateSelected(w)
    \/ ops < MaxOps /\ Len(shapes) < MaxShapes /\ GroupSelected
    \/ ops < MaxOps /\ UngroupSelected
    \/ Undo
    \/ Redo
    \/ ops < MaxOps /\ ResetScene

Spec == Init /\ [][Next]_vars

\* The grouping engine: shapes at different positions are grouped, nested,
\* ungrouped and deleted.
NextGroup ==
    \/ \E t \in AddTypes :
          ops < MaxGroupOps /\ Len(shapes) < MaxGroupShapes /\ AddShape(t, <<>>)
    \/ ops < MaxGroupOps /\ Len(shapes) < MaxGroupShapes /\ ImportModel(MeshFile)
    \/ \E id \in ShapeIds, multi \in BOOLEAN : Click(id, multi)
    \/ SelectAll
    \/ ops < MaxGroupOps /\ Len(shapes) < MaxGroupShapes /\ GroupSelected
    \/ ops < MaxGroupOps /\ UngroupSelected
    \/ ops < MaxGroupOps /\ DeleteSelected

SpecGroup == Init /\ [][NextGroup]_vars

\* The history manager: long runs of snapshot-taking operations (addShape,
\* or the gesture snapshot() then updateShape on the one selected shape),
\* undone and redone.
NextHistory ==
    \/ \E t \in AddTypes :
          ops < MaxHistOps /\ Len(shapes) < MaxHistShapes /\ AddShape(t, <<>>)
    \/ ops < MaxHistOps /\ Len(selectedIds) = 1 /\ Snapshot
    \/ \E p \in PosInputs : /\ lastOp.name = "snapshot"
                            /\ Len(selectedIds) = 1
                            /\ \E i \in 1..Len(shapes) : /\ shapes[i].id = selectedIds[1]
                                                         /\ shapes[i].position # p
                            /\ UpdateShape(selectedIds[1], [position |-> p])
    \/ Undo
    \/ Redo

SpecHistory == Init /\ [][NextHistory]_vars

\* The gestures: gizmo drags, Alt-drags and push/pull presses on a small
\* scene, in every tool mode, undone and redone.
NextGesture ==
    \/ \E t \in AddTypes :
          ops < MaxGestureOps /\ Len(shapes) < MaxGestureShapes /\ AddShape(t, <<>>)
    \/ \E mode \in TransformModes : SetTransformMode(mode)
    \/ \E id \in ShapeIds, isMulti \in BOOLEAN : ops < MaxGestureOps /\ HandlePointerDown(id, isMulti)
    \/ \E alt \in BOOLEAN :
          /\ ops + (IF alt THEN 2 ELSE 1) <= MaxGestureOps
          /\ alt => Len(shapes) < MaxGestureShapes
          /\ GizmoDown(alt)
    \/ \E p \in PosInputs : /\ ActiveShape # <<>>
                            /\ Head(ActiveShape).position # p
                            /\ GizmoChange(p)
    \/ Undo
    \/ Redo

SpecGesture == Init /\ [][NextGesture]_vars

\* The clipboard and duplication: shapes and groups are copied, pasted and
\* duplicated with and without the offset.
NextEdit ==
    \/ \E t \in AddTypes :
          ops < MaxEditOps /\ Len(shapes) < MaxEditShapes /\ AddShape(t, <<>>)
    \/ \E id \in ShapeIds, multi \in BOOLEAN : Click(id, multi)
    \/ ops < MaxEditOps /\ Len(shapes) < MaxEditShapes /\ GroupSelected
    \/ \E w \in BOOLEAN :
          ops < MaxEditOps /\ Len(shapes) < MaxEditShapes /\ DuplicateSelected(w)
    \/ Copy
    \/ ops < MaxEditOps /\ Len(shapes) < MaxEditShapes /\ Paste

SpecEdit == Init /\ [][NextEdit]_vars

\* The mutators without snapshot: once the scene has its shapes, flags are
\* toggled and fields are merged on present and absent ids, between undo and
\* redo.
UpdateInputs == { [opacity |-> OpacityOver, locked |-> TRUE] }

NextMutate ==
    \/ \E t \in AddTypes :
          ops < MaxMutateOps /\ Len(shapes) < MaxMutateShapes /\ AddShape(t, <<>>)
    \/ ops < MaxMutateOps /\ Snapshot
    \/ \E id \in ShapeIds : Click(id, FALSE)
    \/ \E id \in ShapeIds \cup {nextId}, u \in UpdateInputs :
          ops = MaxMutateOps /\ UpdateShape(id, u)
    \/ \E id \in ShapeIds \cup {nextId} : ops = MaxMutateOps /\ ToggleShapeVisibility(id)
    \/ \E id \in ShapeIds \cup {nextId} : ops = MaxMutateOps /\ ToggleShapeLock(id)
    \/ \E id \in ShapeIds \cup {nextId} : ops = MaxMutateOps /\ ToggleGroupCollapse(id)
    \/ Undo
    \/ Redo

SpecMutate == Init /\ [][NextMutate]_vars

\* The digitizer: the drawing tool is switched on and off, points are
\* clicked on the snapping grid, Enter finishes and Escape cancels while the
\* tool is on (DrawingPlane listens and renders only then), and the
\* transform mode is changed, and the surface undone and redone, at any time.
DrawPoints == { <<0, 0, 0>>, <<2, 0, 0>>, <<2, 0, 2>>, <<72, 0, 0>> }

NextDraw ==
    \/ \E id \in ShapeIds : Click(id, FALSE)
    \/ \E b \in BOOLEAN : SetIsDrawing(b)
    \/ \E p \in DrawPoints :
          isDrawing /\ Len(drawingPoints) < MaxDrawPoints /\ AddDrawingPoint(p)
    \/ /\ isDrawing
       /\ ~FinishReturns(drawingPoints) => ops < MaxDrawOps
       /\ FinishDrawing
    \/ isDrawing /\ CancelDrawing
    \/ \E mode \in TransformModes : SetTransformMode(mode)
    \/ Undo
    \/ Redo

SpecDraw == Init /\ [][NextDraw]_vars

\* Surfaces: one surface after another is drawn on the snapping grid and
\* finished, undone and redone.
SurfacePoints == { <<0, 0, 0>>, <<2, 0, 0>>, <<2, 0, 2>> }

NextSurface ==
    \/ \E b \in BOOLEAN : SetIsDrawing(b)
    \/ \E p \in SurfacePoints :
          isDrawing /\ Len(drawingPoints) < MaxDrawPoints /\ AddDrawingPoint(p)
    \/ /\ isDrawing
       /\ ~FinishReturns(drawingPoints) => ops < MaxSurfaceOps
       /\ FinishDrawing
    \/ Undo
    \/ Redo

SpecSurface == Init /\ [][NextSurface]_vars

\* The selection: shapes are added, clicked and shift-clicked in any number,
\* deselected by a click on the background, undone and redone.
NextSelect ==
    \/ \E t \in AddTypes :
          ops < MaxSelectOps /\ Len(shapes) < MaxSelectShapes /\ AddShape(t, <<>>)
    \/ \E id \in ShapeIds, multi \in BOOLEAN : SelectShape(id, multi)
    \/ SelectNone
    \/ Undo
    \/ Redo

SpecSelect == Init /\ [][NextSelect]_vars

\* Adding: shapes of two types are added from the toolbar, with and without
\* a file name as override, selected, undone and redone.
ShapeTypes == {"box", "sphere"}
Overrides == { <<>>, [name |-> Name("file", 0)] }

NextAdd ==
    \/ \E t \in ShapeTypes, e \in Overrides :
          ops < MaxAddOps /\ Len(shapes) < MaxAddShapes /\ AddShape(t, e)
    \/ \E id \in ShapeIds : SelectShape(id, FALSE)
    \/ Undo
    \/ Redo

SpecAdd == Init /\ [][NextAdd]_vars

\* Batches: lists of none, two and three shapes, as processNode builds them
\* from a file, are handed to addShapes, between clicks, undo and redo.
ImportLists == { <<>>, MeshFile, <<ExportedBox, ExportedGroup, MeshNode(<<1, 0, 0>>)>> }

NextImport ==
    \/ \E f \in ImportLists :
          /\ ops < MaxImportOps
          /\ Len(shapes) + Len(f) <= MaxImportShapes
          /\ AddShapes(ProcessNodes(f, nextId))
          /\ nextId' = nextId + Len(f)
    \/ \E id \in ShapeIds : SelectShape(id, FALSE)
    \/ Undo
    \/ Redo

SpecImport == Init /\ [][NextImport]_vars

\* The camera: views are requested from the view controls, the same one
\* twice in a row included, and the projection is switched by hand, while
\* shapes are added, selected, undone and redone.
ViewModes == {"perspective", "orthographic"}

NextCamera ==
    \/ \E type \in ViewTypes : Cardinality(requested) < MaxRequests /\ RequestCameraView(type)
    \/ \E mode \in ViewModes : SetViewMode(mode)
    \/ \E t \in AddTypes :
          ops < MaxCameraOps /\ Len(shapes) < MaxCameraShapes /\ AddShape(t, <<>>)
    \/ \E id \in ShapeIds : SelectShape(id, FALSE)
    \/ Undo
    \/ Redo

SpecCamera == Init /\ [][NextCamera]_vars

\* The editor as a whole around the digitizer: every store operation the
\* toolbar, the keyboard and the layer list reach, in drawing mode and out
\* of it.  The keyboard shortcuts do not look at isDrawing.
FramePoints == { <<0, 0, 0>> }

NextFrame ==
    \/ \E b \in BOOLEAN : SetIsDrawing(b)
    \/ \E p \in FramePoints :
          isDrawing /\ Len(drawingPoints) < MaxDrawPoints /\ AddDrawingPoint(p)
    \/ /\ isDrawing
       /\ ~FinishReturns(drawingPoints) => ops < MaxFrameOps
       /\ FinishDrawing
    \/ isDrawing /\ CancelDrawing
    \/ SetTransformMode("translate")
    \/ \E t \in AddTypes :
          ops < MaxFrameOps /\ Len(shapes) < MaxFrameShapes /\ AddShape(t, <<>>)
    \/ ops < MaxFrameOps /\ Len(shapes) + Len(MeshFile) <= MaxFrameShapes /\ ImportModel(MeshFile)
    \/ \E id \in ShapeIds : SelectShape(id, FALSE)
    \/ SelectAll
    \/ SelectNone
    \/ \E id \in ShapeIds, u \in UpdateInputs : ops = MaxFrameOps /\ UpdateShape(id, u)
    \/ \E w \in DupOffsets :
          ops < MaxFrameOps /\ Len(shapes) < MaxFrameShapes /\ DuplicateSelected(w)
    \/ ops < MaxFrameOps /\ DeleteSelected
    \/ ops < MaxFrameOps /\ Len(shapes) < MaxFrameShapes /\ GroupSelected
    \/ ops < MaxFrameOps /\ UngroupSelected
    \/ Undo
    \/ Redo
    \/ ops < MaxFrameOps /\ ResetScene

SpecFrame == Init /\ [][NextFrame]_vars

\* The box selector: presses, moves and releases of the pointer on the
\* canvas, with clicks on shapes, mode keys and the key that adds a box in
\* between.  React runs a pending effect before it handles the next event.
\* The keys V and G work while the button is held; the push/pull button
\* needs the pointer.
ScreenPoints == { <<0, 0>>, <<4, 4>>, <<100, 100>>, <<200, 200>> }
KeyModes == {"select", "translate"}

NextBox ==
    \/ RunEffect
    \/ \E point \in ScreenPoints : EffectCurrent /\ CanvasPointerDown(point)
    \/ \E point \in ScreenPoints : EffectCurrent /\ PointerMove(point)
    \/ EffectCurrent /\ PointerUp
    \/ \E mode \in KeyModes : EffectCurrent /\ SetTransformMode(mode)
    \/ EffectCurrent /\ ~pointerHeld /\ SetTransformMode("pushpull")
    \/ \E id \in ShapeIds :
          EffectCurrent /\ ~pointerHeld /\ ops < MaxBoxOps /\ HandlePointerDown(id, FALSE)
    \/ \E t \in AddTypes :
          EffectCurrent /\ ops < MaxBoxOps /\ Len(shapes) < MaxBoxShapes /\ AddShape(t, <<>>)

SpecBox == Init /\ [][NextBox]_vars

\* React runs the pending effect, and the button that is down is let go.
FairSpecBox == SpecBox /\ WF_vars(RunEffect) /\ WF_vars(EffectCurrent /\ PointerUp)

\* The export: the file is requested from the toolbar while the scene
\* settings are edited and shapes are added.
Colors == {"#f1f5f9", "#000000"}
ExportSunInputs == {[date |-> 81], [date |-> 172]}

NextExport ==
    \/ exportRequested < MaxExports /\ TriggerExport
    \/ \E color \in Colors : exported < MaxExported /\ SetBackgroundColor(color)
    \/ \E visible \in BOOLEAN : exported < MaxExported /\ SetGridVisible(visible)
    \/ \E settings \in ExportSunInputs : exported < MaxExported /\ SetSunSettings(settings)
    \/ \E t \in AddTypes :
          ops < MaxExportOps /\ Len(shapes) < MaxExportShapes /\ AddShape(t, <<>>)
    \/ \E id \in ShapeIds : SelectShape(id, FALSE)
    \/ Undo
    \/ Redo

SpecExport == Init /\ [][NextExport]_vars

\* The sun: an imported settings file hands setSunSettings any part of the
\* settings; here one field at a time.
SunInputs ==
    {[latitude |-> v] : v \in {0, 30 * Micro, 40712800, -45 * Micro}}
    \cup {[longitude |-> v] : v \in {0, 15 * Micro, -74006000}}
    \cup {[date |-> v] : v \in {81, 172, 264, 355}}
    \cup {[time |-> v] : v \in {9 * Micro, 12 * Micro, 15 * Micro}}

NextSun == \E settings \in SunInputs : SetSunSettings(settings)

SpecSun == Init /\ [][NextSun]_vars

\* ------------------------------------------------------------ properties
\* C1. Undo/redo inverse law.  The reference stack holds the collection
\* before each of the last HistoryLimit snapshot-taking operations and the
\* collection after the last; every undo() moves the current collection one
\* entry down it and every redo() one entry up, so k <= HistoryLimit undo()
\* calls after k operations give exactly the collection before them and k
\* redo() calls give exactly the collection after them.  undo() has an
\* entry to go down to exactly when the stack has one, and so has redo().
C1_UndoRedoInverse ==
    /\ shapes = trace[cursor]
    /\ Len(history.past) = cursor - 1
    /\ Len(history.future) = Len(trace) - cursor

\* HistoryLimit operations, then HistoryLimit undo() calls down to the
\* collection before the first, then HistoryLimit redo() calls back up,
\* through collections that differ.
C1_Witness ==
    /\ lastOp.name = "redo" /\ lastOp.walk = "full"
    /\ Len(history.past) = HistoryLimit
    /\ cursor = Len(trace)
    /\ Cardinality(Range(trace)) >= MaxHistShapes + 1

\* C2. History bound.  After n >= HistoryLimit snapshot-taking operations in
\* a row from the initial state, past holds exactly HistoryLimit entries: in
\* order, the collections before each of the last HistoryLimit operations;
\* the older ones are gone.
C2_HistoryBound ==
    linear /\ ops >= HistoryLimit =>
        /\ Len(history.past) = HistoryLimit
        /\ Len(trace) = HistoryLimit + 1
        /\ history.past = SubSeq(trace, 1, HistoryLimit)

\* HistoryLimit + 1 operations: the collection before the first is evicted.
C2_Witness ==
    /\ linear /\ ops = HistoryLimit + 1
    /\ \A i \in 1..Len(history.past) : history.past[i] # <<DefaultBox(DefaultBoxId)>>

\* C3. history.past never holds more than HistoryLimit snapshots, redo()
\* included, which appends to past without trimming.
C3_PastBounded == Len(history.past) <= HistoryLimit

\* a redo() that filled past up to the limit
C3_Witness ==
    /\ lastOp.name = "redo" /\ lastOp.acted
    /\ Len(history.past) = HistoryLimit

\* C4. A new branch invalidates redo: every operation that calls snapshot()
\* leaves history.future empty, and a redo() issued right after it changes
\* neither shapes nor selection nor history.
C4_NewBranchInvalidatesRedo ==
    [][ /\ lastOp'.snap => history'.future = <<>>
        /\ lastOp.snap /\ lastOp'.name = "redo" =>
               UNCHANGED <<shapes, selectedIds, history>> ]_vars

\* two undo() calls, a snapshot-taking operation that discards both redo
\* entries, then a redo() that finds nothing to redo
C4_Witness ==
    /\ lastOp.name = "redo" /\ ~lastOp.acted
    /\ lastOp.prev.snap /\ lastOp.prev.dropped >= 2

\* C5. undo() with an empty past and redo() with an empty future change
\* neither shapes nor selectedIds nor history: the selection is kept.
C5_EmptyStackNoOp ==
    [][ /\ lastOp'.name = "undo" /\ history.past = <<>> =>
               UNCHANGED <<shapes, selectedIds, history>>
        /\ lastOp'.name = "redo" /\ history.future = <<>> =>
               UNCHANGED <<shapes, selectedIds, history>> ]_vars

\* a redo() with nothing to redo, then an undo() with nothing to undo, with
\* a shape selected all along
C5_Witness ==
    /\ lastOp.name = "undo" /\ ~lastOp.acted
    /\ lastOp.prev.name = "redo" /\ ~lastOp.prev.acted
    /\ history.past = <<>> /\ history.future = <<>>
    /\ selectedIds # <<>>

\* What rounding allows.  Spacing(m) is the distance between neighbouring
\* representable numbers at magnitude m; a number is representable when
\* rounding leaves it alone.
Spacing(m) == RatStep(m, 1, 1)
Representable(x) == RoundRat(x, 1) = x
Axes == 1..3

\* the selection names two or more shapes of the collection, none with a parent
FlatSelection(b) ==
    /\ Len(b.selectedIds) >= 2
    /\ \A i \in 1..Len(b.selectedIds) :
          \E j \in 1..Len(b.shapes) : /\ b.shapes[j].id = b.selectedIds[i]
                                       /\ b.shapes[j].parentId = NoParent

\* groupSelected() on such a selection, then ungroupSelected() at once
RoundTripDone ==
    /\ lastOp.name = "ungroupSelected" /\ lastOp.roundTrip
    /\ FlatSelection(lastOp.origin)

\* C6, as stated.  groupSelected() then ungroupSelected() on two or more
\* parentless shapes gives back the original collection exactly, every
\* position included, and the originally grouped shapes as the selection.
C6_ExactRoundTrip ==
    RoundTripDone =>
        /\ shapes = lastOp.origin.shapes
        /\ Range(selectedIds) = Range(lastOp.origin.selectedIds)

\* a coordinate p, moved to p - c and back: exact when p - c is
\* representable, and never off by more than the spacing at |p| + |c|
Restored(p, q, c) ==
    /\ Representable(p - c) => q = p
    /\ Abs(q - p) <= Spacing(Abs(p) + Abs(c))

\* C6, amended.  The round trip gives back the same shapes in the same
\* order with the same fields, none with a parent, the group gone, the
\* shapes outside the selection untouched and the originally grouped shapes
\* selected; each coordinate of a grouped shape is restored exactly when its
\* offset from the centroid is representable and to within the rounding of
\* the two subtractions and additions otherwise.
C6_RoundTrip ==
    RoundTripDone =>
        LET o == lastOp.origin
            g == Head(Find(lastOp.before.shapes, lastOp.before.selectedIds[1]))
        IN  /\ Len(shapes) = Len(o.shapes)
            /\ \A i \in 1..Len(o.shapes) :
                  /\ shapes[i] = [o.shapes[i] EXCEPT !.position = shapes[i].position]
                  /\ IF Includes(o.selectedIds, o.shapes[i].id)
                     THEN \A k \in Axes : Restored(o.shapes[i].position[k],
                                                    shapes[i].position[k], g.position[k])
                     ELSE shapes[i].position = o.shapes[i].position
            /\ Range(selectedIds) = Range(o.selectedIds)

\* a round trip that moved a shape: its offset from the centroid was rounded
C6_Witness ==
    /\ RoundTripDone
    /\ shapes # lastOp.origin.shapes

\* the sum of the world positions of the shapes, exactly, and of their sizes
RECURSIVE SumWorld(_, _, _)
SumWorld(shs, sel, k) ==
    IF sel = <<>> THEN 0 ELSE WorldPosition(shs, Head(sel))[k] + SumWorld(shs, Tail(sel), k)

RECURSIVE SumAbs(_, _, _)
SumAbs(shs, sel, k) ==
    IF sel = <<>> THEN 0 ELSE Abs(WorldPosition(shs, Head(sel))[k]) + SumAbs(shs, Tail(sel), k)

\* groupSelected() as C7 describes it, on the collection and selection b,
\* up to rounding: one new group at the mean of the selected shapes' world
\* positions, every selected shape a child of it with its world position
\* kept, every other shape untouched, the group selected.
GroupedAsSpecified(b) ==
    LET g   == Last(shapes)
        sel == SelectedShapes(b.shapes, b.selectedIds)
        n   == Len(sel)
    IN  /\ Len(shapes) = Len(b.shapes) + 1
        /\ g.type = "group" /\ g.parentId = NoParent
        /\ ~Includes(Ids(b.shapes), g.id)
        /\ \A k \in Axes : Abs(n * g.position[k] - SumWorld(b.shapes, sel, k))
                               <= n * Spacing(SumAbs(b.shapes, sel, k))
        /\ \A i \in 1..Len(b.shapes) :
              IF Includes(b.selectedIds, b.shapes[i].id)
              THEN /\ shapes[i] = [b.shapes[i] EXCEPT !.parentId = g.id,
                                                       !.position = shapes[i].position]
                   /\ \A k \in Axes :
                         Abs(WorldPosition(shapes, shapes[i])[k]
                             - WorldPosition(b.shapes, b.shapes[i])[k])
                         <= Spacing(Abs(WorldPosition(b.shapes, b.shapes[i])[k])
                                    + Abs(g.position[k]))
              ELSE shapes[i] = b.shapes[i]
        /\ selectedIds = <<g.id>>

\* C7, as stated.  groupSelected() with two or more selected shapes groups
\* them as specified, whether or not a selected shape already had a parent.
C7_GroupKeepsWorldPositions ==
    lastOp.name = "groupSelected" /\ lastOp.acted => GroupedAsSpecified(lastOp.before)

\* a shape goes with a deletion when it is selected or its parent goes
RECURSIVE Doomed(_, _, _)
Doomed(shs, s, sel) ==
    \/ s.id \in sel
    \/ /\ s.parentId # NoParent
       /\ \/ s.parentId \in sel
          \/ \E j \in 1..Len(shs) : shs[j].id = s.parentId /\ Doomed(shs, shs[j], sel)

\* C8. Cascade delete.  deleteSelected() removes the selected shapes and
\* their descendants at any depth, and nothing else; the shapes that remain
\* are unchanged and in order, and the selection is empty.
C8_CascadeDelete ==
    lastOp.name = "deleteSelected" =>
        LET b == lastOp.before
        IN  /\ shapes = SelectSeq(b.shapes,
                                  LAMBDA s : ~Doomed(b.shapes, s, Range(b.selectedIds)))
            /\ selectedIds = <<>>

\* a deletion that took a shape two levels below the selected group and
\* left another shape behind
C8_Witness ==
    /\ lastOp.name = "deleteSelected"
    /\ shapes # <<>>
    /\ \E i \in 1..Len(lastOp.before.shapes) :
          LET s == lastOp.before.shapes[i]
          IN  /\ ~Includes(shapes, s)
              /\ ~Includes(lastOp.before.selectedIds, s.id)
              /\ ~Includes(lastOp.before.selectedIds, s.parentId)

\* C9. Referential integrity of parentId: a shape whose parentId is set has
\* a shape of type group with that id in the same collection.
C9_ParentIntegrity ==
    \A i \in 1..Len(shapes) :
        shapes[i].parentId # NoParent =>
            \E j \in 1..Len(shapes) : /\ shapes[j].id = shapes[i].parentId
                                       /\ shapes[j].type = "group"

\* a selected group deleted together with its children, other shapes left
C9_Witness ==
    /\ lastOp.name = "deleteSelected"
    /\ shapes # <<>>
    /\ \E i \in 1..Len(lastOp.before.shapes) :
          Includes(lastOp.before.selectedIds, lastOp.before.shapes[i].parentId)

Distinct(shs) == \A i, j \in 1..Len(shs) : i # j => shs[i].id # shs[j].id

\* the ids of the shapes the history holds
HistoryIds ==
    UNION ({Range(Ids(history.past[i])) : i \in 1..Len(history.past)}
           \cup {Range(Ids(history.future[i])) : i \in 1..Len(history.future)})

InGesture == lastOp.name \in {"gizmoDown", "gizmoChange", "pushPullPress"}

\* C11, as stated.  Every gesture (a gizmo drag, an Alt-drag that duplicates
\* the selection first, a push/pull press) pushes exactly one history entry
\* when it starts and none while it updates the shape, and one undo() after
\* it gives back the collection the gesture started from.
C11_GestureIsOneUndoStep ==
    InGesture =>
        /\ history.past = KeepLast(Append(lastOp.gesture.past, lastOp.gesture.shapes),
                                   HistoryLimit)
        /\ Undone(StoreState).shapes = lastOp.gesture.shapes

\* C12, as stated.  deleteSelected() with an empty selection, or with a
\* selection that names no shape of the collection, changes neither the
\* collection nor history.past nor history.future: a pending redo stays.
C12_DeleteNothingIsNoOp ==
    [][ /\ lastOp'.name = "deleteSelected"
        /\ \A i \in 1..Len(selectedIds) : selectedIds[i] \notin ShapeIds
        => UNCHANGED <<shapes, history>> ]_vars

\* exactly one id is selected and it is the id of a group of the collection
OneGroupSelected ==
    /\ Len(selectedIds) = 1
    /\ \E i \in 1..Len(shapes) : shapes[i].id = selectedIds[1] /\ shapes[i].type = "group"

\* C13. Grouping guards: groupSelected() with fewer than two ids selected,
\* and ungroupSelected() unless exactly one id is selected and it is the id
\* of a group, change nothing in the store; no snapshot is taken.
C13_GroupingGuards ==
    [][ /\ lastOp'.name = "groupSelected" /\ Len(selectedIds) < 2 => UNCHANGED store
        /\ lastOp'.name = "ungroupSelected" /\ ~OneGroupSelected => UNCHANGED store ]_vars

\* ungroupSelected() on one selected box, beside a group, with undo and
\* redo entries pending
C13_Witness ==
    /\ lastOp.name = "ungroupSelected" /\ ~lastOp.acted
    /\ Len(selectedIds) = 1
    /\ \E i \in 1..Len(shapes) : shapes[i].type = "group"
    /\ history.past # <<>> /\ history.future # <<>>

\* the shapes of the collection the selection names, in collection order
Chosen == SelectSeq(shapes, LAMBDA s : s.id \in Range(selectedIds))

\* a + b as the program computes it
Plus(a, b) == RoundRat(a + b, 1)

\* c is a clone of s made with the offset d on X and Z
IsCloneOf(c, s, d) ==
    c = [s EXCEPT !.id = c.id,
                  !.name = [base |-> s.name.base, num |-> s.name.num,
                            copies |-> s.name.copies + 1],
                  !.position = IF d = 0 THEN s.position
                               ELSE <<Plus(s.position[1], d), s.position[2],
                                      Plus(s.position[3], d)>>]

\* C14. Duplicate offset law.  duplicateSelected(withOffset) leaves the
\* shapes of the collection in place and unchanged and appends, for every
\* selected shape, a clone that equals it in every field but the id (fresh),
\* the name (one more " (Copy)") and the position: the original's plus
\* (2, 0, 2) with the offset, exactly the original's without it.
C14_DuplicateOffsetLaw ==
    [][ lastOp'.name = "duplicateSelected" /\ Len(selectedIds) > 0 =>
          /\ SubSeq(shapes', 1, Len(shapes)) = shapes
          /\ Len(selectedIds') = Len(Chosen)
          /\ \A i \in 1..Len(Chosen) :
                \E j \in (Len(shapes) + 1)..Len(shapes') :
                    /\ shapes'[j].id = selectedIds'[i]
                    /\ shapes'[j].id \notin ShapeIds \cup HistoryIds
                    /\ \A k \in 1..Len(shapes') : shapes'[k].id = shapes'[j].id => k = j
                    /\ IsCloneOf(shapes'[j], Chosen[i],
                                 IF lastOp'.withOffset THEN DuplicateOffset ELSE 0) ]_vars

\* two selected shapes duplicated in place: each clone sits on its original
C14_Witness ==
    /\ lastOp.name = "duplicateSelected" /\ lastOp.acted /\ ~lastOp.withOffset
    /\ Len(selectedIds) = 2
    /\ \A i \in 1..2 :
          \E j, k \in 1..Len(shapes) :
              /\ shapes[k].id = selectedIds[i]
              /\ shapes[j].id # shapes[k].id
              /\ IsCloneOf(shapes[k], shapes[j], 0)

\* the shapes whose parentId is id, in collection order
DirectChildren(shs, id) == SelectSeq(shs, LAMBDA s : s.parentId = id)

\* one shape per selected shape, and one more per direct child of a group
RECURSIVE Added(_, _)
Added(shs, sel) ==
    IF sel = <<>> THEN 0
    ELSE 1 + (IF Head(sel).type = "group" THEN Len(DirectChildren(shs, Head(sel).id)) ELSE 0)
           + Added(shs, Tail(sel))

\* C15. duplicateSelected() on a selected group with k direct children adds
\* 1 + k shapes for it: the group's clone and a clone of each direct child
\* with a fresh id, the new group's id as parentId and the child's own
\* position; the selection becomes the ids of the clones of the selected
\* shapes, child clones left out.  With nothing selected nothing changes
\* and no snapshot is taken.
C15_DuplicateGroup ==
    [][ /\ lastOp'.name = "duplicateSelected" /\ Len(selectedIds) = 0 => UNCHANGED store
        /\ lastOp'.name = "duplicateSelected" /\ Len(selectedIds) > 0 =>
              /\ Len(shapes') = Len(shapes) + Added(shapes, Chosen)
              /\ Len(selectedIds') = Len(Chosen)
              /\ \A j, k \in 1..Len(shapes') : shapes'[j].id = shapes'[k].id => j = k
              /\ \A i \in 1..Len(Chosen) :
                    /\ \E j \in (Len(shapes) + 1)..Len(shapes') :
                          /\ shapes'[j].id = selectedIds'[i]
                          /\ shapes'[j].type = Chosen[i].type
                          /\ shapes'[j].name.copies = Chosen[i].name.copies + 1
                    /\ Chosen[i].type = "group" =>
                          LET kids    == DirectChildren(shapes, Chosen[i].id)
                              newKids == DirectChildren(shapes', selectedIds'[i])
                          IN  /\ Len(newKids) = Len(kids)
                              /\ \A c \in 1..Len(kids) :
                                    /\ newKids[c] = [kids[c] EXCEPT !.id = newKids[c].id,
                                                                     !.parentId = selectedIds'[i]]
                                    /\ newKids[c].id \notin ShapeIds \cup HistoryIds
                                    /\ newKids[c].id \notin Range(selectedIds') ]_vars

\* a selected group with two children duplicated: its clone alone is
\* selected and has two children of its own, at the children's positions
C15_Witness ==
    /\ lastOp.name = "duplicateSelected" /\ lastOp.acted
    /\ Len(selectedIds) = 1
    /\ \E i \in 1..Len(shapes) :
          /\ shapes[i].id = selectedIds[1]
          /\ shapes[i].type = "group"
          /\ shapes[i].name.copies = 1
          /\ Len(DirectChildren(shapes, shapes[i].id)) = 2
    /\ Len(shapes) = 6

\* what the clipboard can hold here: nothing, or a shape of the collection
Clipboards == {<<>>} \cup {<<shapes[i]>> : i \in 1..Len(shapes)}

\* paste() from the current state with c in the clipboard leaves the shapes,
\* the selection and the history that paste() leaves from the current state
PasteIgnores(c) ==
    LET a == Pasted([AppState EXCEPT !.clipboard = c])
        b == Pasted(AppState)
    IN  /\ a.shapes = b.shapes
        /\ a.selectedIds = b.selectedIds
        /\ a.history = b.history
        /\ a.clipboard = c

\* C16. paste() duplicates the live selection, not the clipboard: from two
\* states that differ in the clipboard only it leaves the same shapes,
\* selection and history; it does what duplicateSelected(true) does, and
\* nothing when nothing is selected, whatever the clipboard holds.  copy()
\* puts the first selected id's shape into the clipboard and changes
\* neither shapes nor selection nor history.
C16_PasteIgnoresClipboard ==
    /\ [](\A c \in Clipboards : PasteIgnores(c))
    /\ [][ /\ lastOp'.name = "paste" =>
                /\ shapes' = Duplicated(AppState, TRUE).shapes
                /\ selectedIds' = Duplicated(AppState, TRUE).selectedIds
                /\ history' = Duplicated(AppState, TRUE).history
                /\ clipboard' = clipboard
                /\ (Len(selectedIds) = 0 => UNCHANGED store)
           /\ lastOp'.name = "copy" =>
                /\ UNCHANGED <<shapes, selectedIds, history>>
                /\ clipboard' = IF selectedIds # <<>> /\ selectedIds[1] \in ShapeIds
                                 THEN <<CHOOSE s \in Range(shapes) : s.id = selectedIds[1]>>
                                 ELSE clipboard ]_vars

\* one shape copied, another selected and pasted: the new shape is a copy
\* of the selected one and the clipboard's shape has no copy
C16_Witness ==
    /\ lastOp.name = "paste" /\ lastOp.acted
    /\ clipboard # <<>>
    /\ Len(selectedIds) = 1
    /\ \A i \in 1..Len(shapes) : ~IsCloneOf(shapes[i], Head(clipboard), DuplicateOffset)
    /\ \E i \in 1..Len(shapes) : shapes[i].id = Head(clipboard).id

\* following parentId links from s for at most n steps ends at a shape
\* without parentId
RECURSIVE ReachesRoot(_, _, _)
ReachesRoot(shs, s, n) ==
    \/ s.parentId = NoParent
    \/ /\ n > 0
       /\ Find(shs, s.parentId) # <<>>
       /\ ReachesRoot(shs, Head(Find(shs, s.parentId)), n - 1)

\* the ids met on the first n parentId links from s
RECURSIVE AncestorIds(_, _, _)
AncestorIds(shs, s, n) ==
    IF n = 0 \/ s.parentId = NoParent \/ Find(shs, s.parentId) = <<>> THEN {}
    ELSE {s.parentId} \cup AncestorIds(shs, Head(Find(shs, s.parentId)), n - 1)

\* C17. Acyclic parent chain.  In every state reached by adding, importing,
\* grouping, ungrouping, duplicating and deleting shapes, by undo and by
\* redo, the parentId links from any shape lead to a shape without parentId
\* in fewer steps than there are shapes, and no shape is among its own
\* ancestors.
C17_AcyclicParentChain ==
    \A i \in 1..Len(shapes) :
        /\ ReachesRoot(shapes, shapes[i], Len(shapes) - 1)
        /\ shapes[i].id \notin AncestorIds(shapes, shapes[i], Len(shapes))

\* a chain of two links (a shape in a group in a group), brought back by redo
C17_Witness ==
    /\ lastOp.name = "redo" /\ lastOp.acted
    /\ \E i \in 1..Len(shapes) :
          Cardinality(AncestorIds(shapes, shapes[i], Len(shapes))) = 2

\* C18. Opacity stays in range: every shape's opacity lies in [0, 1] (0 to
\* OpacityDefault in quarter units) in every reachable state, updateShape with
\* an opacity field included.
C18_OpacityInRange ==
    \A i \in 1..Len(shapes) :
        shapes[i].opacity >= 0 /\ shapes[i].opacity <= OpacityDefault

\* the flag a toggle negates
ToggleField ==
    [toggleShapeVisibility |-> "visible", toggleShapeLock |-> "locked",
     toggleGroupCollapse |-> "collapsed"]

\* C19. The mutators without snapshot.  updateShape(id, updates) replaces
\* the shape whose id matches by the shallow merge of updates into it, and
\* toggleShapeVisibility(id), toggleShapeLock(id) and toggleGroupCollapse(id)
\* negate the one flag of the shape whose id matches; each leaves every other
\* shape, the order of the collection, the selection, history.past and
\* history.future unchanged, and leaves the collection unchanged when no
\* shape has that id.
C19_MutatorsFrame ==
    [][ LET op == lastOp' IN
        /\ op.name = "updateShape" =>
              /\ Len(shapes') = Len(shapes)
              /\ \A i \in 1..Len(shapes) :
                    IF shapes[i].id = op.id
                    THEN /\ DOMAIN shapes'[i] = DOMAIN shapes[i]
                         /\ \A f \in DOMAIN shapes[i] :
                               shapes'[i][f] = IF f \in DOMAIN op.updates
                                               THEN op.updates[f] ELSE shapes[i][f]
                    ELSE shapes'[i] = shapes[i]
              /\ UNCHANGED <<selectedIds, history>>
              /\ op.id \notin ShapeIds => shapes' = shapes
        /\ op.name \in DOMAIN ToggleField =>
              /\ Len(shapes') = Len(shapes)
              /\ \A i \in 1..Len(shapes) :
                    IF shapes[i].id = op.id
                    THEN /\ DOMAIN shapes'[i] = DOMAIN shapes[i]
                         /\ \A f \in DOMAIN shapes[i] :
                               shapes'[i][f] = IF f = ToggleField[op.name]
                                               THEN ~shapes[i][f] ELSE shapes[i][f]
                    ELSE shapes'[i] = shapes[i]
              /\ UNCHANGED <<selectedIds, history>>
              /\ op.id \notin ShapeIds => shapes' = shapes ]_vars

\* a flag toggled on the first of two shapes, the second one selected and
\* already changed by updateShape, with an undo entry pending
C19_Witness ==
    /\ lastOp.name = "toggleShapeVisibility"
    /\ Len(shapes) = 2
    /\ lastOp.id = shapes[1].id
    /\ ~shapes[1].visible /\ shapes[2].visible
    /\ shapes[2].opacity = OpacityOver
    /\ selectedIds = <<shapes[2].id>>
    /\ Len(history.past) = 1

\* C20. Digitizer state machine.  setIsDrawing(true) leaves the store in
\* Drawing with an empty point buffer and an empty selection; from Drawing,
\* finishDrawing() with three or more points, cancelDrawing() and every
\* setTransformMode(mode) lead to Idle (isDrawing = false); from Drawing,
\* finishDrawing() with fewer than three points leaves the store in Drawing.
C20_DigitizerStateMachine ==
    [][ LET op == lastOp' IN
        /\ op.name = "setIsDrawing" /\ op.isDrawing =>
              isDrawing' /\ drawingPoints' = <<>> /\ selectedIds' = <<>>
        /\ isDrawing /\ op.name = "finishDrawing" /\ Len(drawingPoints) >= 3 => ~isDrawing'
        /\ isDrawing /\ op.name = "cancelDrawing" => ~isDrawing'
        /\ isDrawing /\ op.name = "setTransformMode" => ~isDrawing'
        /\ isDrawing /\ op.name = "finishDrawing" /\ Len(drawingPoints) < 3 => isDrawing'
      ]_vars

\* Idle after a finishDrawing() that made a surface of three points
C20_Witness ==
    /\ lastOp.name = "finishDrawing" /\ lastOp.acted
    /\ ~isDrawing
    /\ drawingPoints = <<>>
    /\ Last(shapes).type = "custom" /\ Len(Last(shapes).points) = 3

\* C21. finishDrawing() with fewer than three buffered points is a complete
\* no-op: no shape is created, history.past and history.future are kept, and
\* the point buffer, the drawing flag and the selection are unchanged.
C21_FinishTooFewIsNoOp ==
    [][ lastOp'.name = "finishDrawing" /\ Len(drawingPoints) < 3 =>
            /\ UNCHANGED <<shapes, history, drawingPoints, isDrawing, selectedIds>>
            /\ ~lastOp'.snap ]_vars

\* finishDrawing() returned on two points, with a redo entry pending and a
\* shape selected
C21_Witness ==
    /\ lastOp.name = "finishDrawing" /\ ~lastOp.acted
    /\ isDrawing
    /\ Len(drawingPoints) = 2
    /\ Len(history.future) = 1
    /\ Len(selectedIds) = 1

\* finishDrawing() is making a surface of the buffered points
FinishStep == lastOp'.name = "finishDrawing" /\ Len(drawingPoints) >= 3

\* the X and Z axes of a ground point
GroundAxes == {1, 3}

\* the least and the greatest coordinate of the points on axis k
LeastOf(points, k) == SetMin({points[i][k] : i \in 1..Len(points)})
GreatestOf(points, k) == SetMax({points[i][k] : i \in 1..Len(points)})

\* C22, as stated.  finishDrawing() on n >= 3 points creates a custom shape
\* at the bounding-box midpoint ((minX + maxX)/2, 0, (minZ + maxZ)/2) whose
\* points are the buffered points minus that anchor, in the same number and
\* order; position + points[i] is the i-th buffered point, and the bounding
\* box of the stored points is centred on the origin.
C22_ExactNormalization ==
    [][ FinishStep =>
          LET b == drawingPoints
              s == Last(shapes')
          IN  /\ s.type = "custom"
              /\ s.position[2] = 0
              /\ Len(s.points) = Len(b)
              /\ \A k \in GroundAxes :
                    /\ 2 * s.position[k] = LeastOf(b, k) + GreatestOf(b, k)
                    /\ \A i \in 1..Len(b) :
                          /\ s.points[i][k] = b[i][k] - s.position[k]
                          /\ s.points[i][2] = 0
                          /\ s.position[k] + s.points[i][k] = b[i][k]
                    /\ LeastOf(s.points, k) + GreatestOf(s.points, k) = 0 ]_vars

\* a is the sum or difference x, computed in floating point: x itself when x
\* is representable, and within the spacing at magnitude m otherwise
Rounded(a, x, m) ==
    /\ Representable(x) => a = x
    /\ Abs(a - x) <= Spacing(m)

\* C22, amended.  finishDrawing() on n >= 3 points creates a custom shape
\* whose position is the bounding-box midpoint (not the mean of the points)
\* and whose points are the buffered points minus that anchor, in the same
\* number and order, both as computed in floating point: the anchor is the
\* exact midpoint when minX + maxX is representable, and points[i] is exactly
\* x_i - ax when that difference is representable.  Then position + points[i]
\* is the i-th buffered point and the bounding box of the stored points is
\* centred on the origin; otherwise both hold to within the rounding of the
\* sum and of the differences.
C22_Normalization ==
    [][ FinishStep =>
          LET b == drawingPoints
              s == Last(shapes')
          IN  /\ s.type = "custom"
              /\ s.position[2] = 0
              /\ Len(s.points) = Len(b)
              /\ \A k \in GroundAxes :
                    LET mn == LeastOf(b, k)
                        mx == GreatestOf(b, k)
                        m  == Abs(mn) + Abs(mx)
                    IN  /\ Rounded(2 * s.position[k], mn + mx, m)
                        /\ \A i \in 1..Len(b) :
                              /\ Rounded(s.points[i][k], b[i][k] - s.position[k], m)
                              /\ s.points[i][2] = 0
                              /\ Restored(b[i][k], s.position[k] + s.points[i][k],
                                          s.position[k])
                        /\ Abs(LeastOf(s.points, k) + GreatestOf(s.points, k))
                              <= 2 * Spacing(m)
                        /\ ( /\ Representable(mn + mx)
                             /\ Representable(mn - s.position[k])
                             /\ Representable(mx - s.position[k]) )
                             => LeastOf(s.points, k) + GreatestOf(s.points, k) = 0 ]_vars

\* a surface whose anchor was rounded: the stored points do not add up to
\* the buffered ones
C22_Witness ==
    /\ lastOp.name = "finishDrawing" /\ lastOp.acted
    /\ LET s == Last(shapes)
       IN  /\ s.type = "custom" /\ Len(s.points) = 3
           /\ LeastOf(s.points, 1) + GreatestOf(s.points, 1) # 0
           /\ s.position[1] + GreatestOf(s.points, 1) = 72
           /\ s.position[1] + LeastOf(s.points, 1) # 0
           /\ s.position[1] + LeastOf(s.points, 1) # 2

\* C23. A finishDrawing() on three or more points pushes the collection as
\* it was onto history.past, appends exactly one shape of type custom, named
\* Surface with the number of custom shapes there were plus one, leaves the
\* existing shapes as they were, empties the point buffer and leaves drawing
\* mode; and every custom shape has at least three points.
C23_FinishCreatesSurface ==
    /\ [](\A i \in 1..Len(shapes) :
             shapes[i].type = "custom" => Len(shapes[i].points) >= 3)
    /\ [][ FinishStep =>
             /\ history'.past = Append(history.past, shapes)
             /\ Len(shapes') = Len(shapes) + 1
             /\ SubSeq(shapes', 1, Len(shapes)) = shapes
             /\ Last(shapes').type = "custom"
             /\ Last(shapes').name =
                   Name("Surface",
                        Cardinality({i \in 1..Len(shapes) : shapes[i].type = "custom"}) + 1)
             /\ drawingPoints' = <<>>
             /\ ~isDrawing' ]_vars

\* the second surface, finished while the first is in the collection
C23_Witness ==
    /\ lastOp.name = "finishDrawing" /\ lastOp.acted
    /\ Len(shapes) = 3
    /\ shapes[2].type = "custom"
    /\ shapes[3].type = "custom" /\ shapes[3].name.num = 2
    /\ Len(history.past) = 2
    /\ ~isDrawing /\ drawingPoints = <<>>

\* seq, or seq with one more element at the end
SameOrOneMore(longer, seq) ==
    \/ longer = seq
    \/ Len(longer) = Len(seq) + 1 /\ SubSeq(longer, 1, Len(seq)) = seq

C25_SelectionToggle ==
    [][ lastOp'.name = "selectShape" =>
          LET id == lastOp'.id
              others == SelectSeq(selectedIds, LAMBDA x : x # id)
          IN  /\ UNCHANGED <<shapes, history>>
              /\ selectedIds' =
                    IF id = NullId THEN <<>>
                    ELSE IF ~lastOp'.multi THEN <<id>>
                    ELSE IF \E i \in 1..Len(selectedIds) : selectedIds[i] = id THEN others
                    ELSE others \o <<id>> ]_vars

\* a shift-click that took the second of three selected ids out
C25_Witness ==
    /\ lastOp.name = "selectShape" /\ lastOp.multi
    /\ Len(shapes) = 3
    /\ selectedIds = <<shapes[3].id, shapes[1].id>>
    /\ lastOp.id = shapes[2].id
    /\ Len(history.past) = 2

\* C26. addShape(type, overrides) pushes the collection as it was onto
\* history.past and empties history.future, appends exactly one new shape
\* of the requested type at the end of the collection, leaves every existing
\* shape as it was, and makes the selection exactly the new shape's id; the
\* number in the default name is the number of existing shapes of that type
\* plus one.
C26_AddShape ==
    [][ lastOp'.name = "addShape" =>
          LET new == Last(shapes')
              count == Cardinality({i \in 1..Len(shapes) : shapes[i].type = lastOp'.type})
          IN  /\ history'.past = Append(history.past, shapes)
              /\ history'.future = <<>>
              /\ Len(shapes') = Len(shapes) + 1
              /\ SubSeq(shapes', 1, Len(shapes)) = shapes
              /\ new.type = lastOp'.type
              /\ new.id \notin ShapeIds
              /\ selectedIds' = <<new.id>>
              /\ IF "name" \in DOMAIN lastOp'.extraData
                 THEN new.name = lastOp'.extraData.name
                 ELSE new.name = Name(lastOp'.type, count + 1) ]_vars

\* the second sphere, added while a redo entry was pending, and named with
\* number 2
C26_Witness ==
    /\ lastOp.name = "addShape" /\ lastOp.type = "sphere"
    /\ lastOp.dropped > 0
    /\ Len(shapes) = 3
    /\ shapes[2].type = "sphere"
    /\ shapes[3].name = Name("sphere", 2)

\* C27. addShapes(list) pushes exactly one history entry whatever the length
\* of the list, appends the shapes of the list in their order after the
\* existing shapes, and selects only the id of the last of them; with an
\* empty list the shapes and the selection stay as they are.
C27_AddShapes ==
    [][ lastOp'.name = "addShapes" =>
          LET list == lastOp'.newShapes
              n == Len(list)
          IN  /\ history'.past = Append(history.past, shapes)
              /\ Len(shapes') = Len(shapes) + n
              /\ \A i \in 1..Len(shapes) : shapes'[i] = shapes[i]
              /\ \A i \in 1..n : shapes'[Len(shapes) + i] = list[i]
              /\ n > 0 => selectedIds' = <<list[n].id>>
              /\ n = 0 => shapes' = shapes /\ selectedIds' = selectedIds ]_vars

\* a list of three, appended while another shape was selected
C27_Witness ==
    /\ lastOp.name = "addShapes"
    /\ Len(lastOp.newShapes) = 3
    /\ Len(shapes) > 4
    /\ selectedIds = <<Last(shapes).id>>
    /\ Len(history.past) = 2

\* the ids of the shapes of the collection and of every history entry
KnownIds ==
    ShapeIds
    \cup UNION {Range(Ids(history.past[i])) : i \in 1..Len(history.past)}
    \cup UNION {Range(Ids(history.future[i])) : i \in 1..Len(history.future)}

\* C28. resetScene() from any state leaves a collection of exactly one box
\* with a fresh id at (0, 0.5, 0), an empty selection and empty history.past
\* and history.future; an undo() or a redo() right after it changes nothing,
\* so nothing from before the reset comes back.
C28_ResetScene ==
    [][ /\ lastOp'.name = "resetScene" =>
              /\ Len(shapes') = 1
              /\ shapes'[1].type = "box"
              /\ shapes'[1].position = <<0, YPosDefault, 0>>
              /\ shapes'[1].id \notin KnownIds
              /\ selectedIds' = <<>>
              /\ history' = [past |-> <<>>, future |-> <<>>]
        /\ lastOp.name = "resetScene" /\ lastOp'.name \in {"undo", "redo"} =>
              UNCHANGED <<shapes, selectedIds, history>> ]_vars

\* an undo() right after a reset, which followed at least one added shape:
\* the box of the reset is all there is
C28_Witness ==
    /\ lastOp.name = "undo" /\ ~lastOp.acted
    /\ lastOp.prev.name = "resetScene"
    /\ Len(shapes) = 1
    /\ shapes[1].id > DefaultBoxId + 1
    /\ history = [past |-> <<>>, future |-> <<>>]

\* C29. requestCameraView(type) sets cameraRequest to a request of that type
\* whose id differs from the id of every earlier request, the same type
\* requested twice in a row included, and sets viewMode to perspective
\* exactly when type is iso or axo and to orthographic for top, bottom,
\* front, back, left and right; the collection, the selection and the
\* history are unchanged.
C29_CameraRequest ==
    [][ lastOp'.name = "requestCameraView" =>
          LET type == lastOp'.type
              new == Head(cameraRequest')
          IN  /\ Len(cameraRequest') = 1
              /\ new.type = type
              /\ new.id \notin requested
              /\ cameraRequest # <<>> => new.id # Head(cameraRequest).id
              /\ type \in {"iso", "axo"} => viewMode' = "perspective"
              /\ type \in {"top", "bottom", "front", "back", "left", "right"} =>
                    viewMode' = "orthographic"
              /\ UNCHANGED <<shapes, selectedIds, history>> ]_vars

\* the axo view requested for the second time in a row, as the third
\* request, with a shape selected and an undo entry pending
C29_Witness ==
    /\ lastOp.name = "requestCameraView" /\ lastOp.type = "axo" /\ lastOp.again
    /\ Cardinality(requested) = 3
    /\ viewMode = "perspective"
    /\ Len(selectedIds) = 1
    /\ Len(history.past) = 1


\* C30: for latitude 0, longitude 0, day 81 and utcHour 12, getSunPosition
\* returns a declination within DeclinationTolerance of 0 degrees, an altitude
\* within AltitudeTolerance of 90 degrees, and numbers x, y, z whose squares
\* add up to 1 within UnitTolerance.
ZenithCase ==
    /\ sunSettings.latitude = 0
    /\ sunSettings.longitude = 0
    /\ sunSettings.date = 81
    /\ UtcHour(sunSettings) = 12 * Micro

SquaredLength(p) == MulS(p.x, p.x) + MulS(p.y, p.y) + MulS(p.z, p.z)

UngroupedAsSpecified(b) ==
    LET G    == Head(Find(b.shapes, b.selectedIds[1]))
        rest == SelectSeq(b.shapes, LAMBDA s : s.id # G.id)
    IN  /\ Len(shapes) = Len(rest)
        /\ \A i \in 1..Len(rest) :
              IF rest[i].parentId = G.id
              THEN /\ shapes[i] = [rest[i] EXCEPT !.parentId = NoParent,
                                                  !.position = VAdd(rest[i].position, G.position)]
                   /\ \A k \in Axes :
                         Abs(WorldPosition(shapes, shapes[i])[k]
                             - WorldPosition(b.shapes, rest[i])[k])
                         <= Spacing(Abs(rest[i].position[k]) + Abs(G.position[k]))
              ELSE shapes[i] = rest[i]
        /\ selectedIds = Ids(Children(b.shapes, G.id))

\* C31, as stated.  ungroupSelected() on a selected group restores world
\* coordinates: the children are re-positioned, un-parented and selected,
\* the group is removed, and no former child moves in the world, whether or
\* not the group is itself a child of another group.
C31_UngroupRestoresWorld ==
    lastOp.name = "ungroupSelected" /\ lastOp.acted => UngroupedAsSpecified(lastOp.before)


\* C32, as stated.  The point buffer is live only in drawing mode: in every
\* reachable state drawingPoints is non-empty only if isDrawing is true.
C32_BufferOnlyWhileDrawing == Len(drawingPoints) > 0 => isDrawing


\* the operations C33 lists as leaving the digitizer alone
FrameOperations ==
    {"addShape", "addShapes", "duplicateSelected", "deleteSelected", "groupSelected",
     "ungroupSelected", "undo", "redo", "updateShape", "selectShape", "selectAll",
     "resetScene"}

\* the operations C33 lists as leading from Drawing to Idle
LeavesDrawing(op) ==
    \/ op.name = "finishDrawing" /\ op.acted
    \/ op.name = "cancelDrawing"
    \/ op.name = "setIsDrawing" /\ ~op.isDrawing
    \/ op.name = "setTransformMode"

\* C33, as stated.  isDrawing goes from true to false only through a
\* successful finishDrawing(), cancelDrawing(), setIsDrawing(false) or
\* setTransformMode(); addShape, addShapes, duplicateSelected,
\* deleteSelected, groupSelected, ungroupSelected, undo, redo, updateShape,
\* the selection operations and resetScene leave isDrawing and the point
\* buffer unchanged.
C33_OnlyListedTransitions ==
    [][ /\ isDrawing /\ ~isDrawing' => LeavesDrawing(lastOp')
        /\ lastOp'.name \in FrameOperations => UNCHANGED <<isDrawing, drawingPoints>> ]_vars


\* C34. Total history is bounded: in every reachable state the undo stack
\* and the redo stack together hold at most HistoryLimit collections.
C34_TotalHistoryBounded ==
    Len(history.past) + Len(history.future) <= HistoryLimit

\* both stacks in use and full together: undo() twice or more after the
\* snapshot that trimmed the undo stack
C34_Witness ==
    /\ Len(history.past) + Len(history.future) = HistoryLimit
    /\ Len(history.past) > 0
    /\ Len(history.future) > 1
    /\ lastOp.name = "undo" /\ lastOp.acted
    /\ ops = MaxHistOps


\* C35. Selection validity: when selectShape is called only with ids of
\* shapes present at the time of the call, every id in selectedIds is the id
\* of a shape in the current collection, in every reachable state.
C35_SelectionValid ==
    \A i \in 1..Len(selectedIds) : selectedIds[i] \in ShapeIds

\* ungroupSelected() has removed the selected group and left its two
\* children selected
C35_Witness ==
    /\ lastOp.name = "ungroupSelected" /\ lastOp.acted
    /\ lastOp.before.selectedIds[1] \notin ShapeIds
    /\ Len(selectedIds) = 2


\* C36. deleteSelected() always terminates: in every reachable state, for
\* every id that can be selected, findDescendants(id) returns, never nests
\* deeper than there are shapes, and visits each shape below id once and no
\* other shape, so it makes fewer calls than there are shapes.
C36_DeleteTerminates ==
    \A id \in ShapeIds :
        LET v == Visits(shapes, id)
        IN  /\ Unfinished \notin Range(v)
            /\ \A a, b \in 1..Len(v) : v[a] = v[b] => a = b
            /\ Range(v) = FindDescendants(shapes, id)
            /\ Len(v) < Len(shapes)

\* deleteSelected() has removed a selected group whose search went two
\* levels down: a child group and that group's children
C36_Witness ==
    /\ lastOp.name = "deleteSelected" /\ lastOp.acted
    /\ \E i \in 1..Len(lastOp.before.selectedIds) :
          LET b == lastOp.before
              v == Visits(b.shapes, b.selectedIds[i])
          IN  /\ Len(v) >= 3
              /\ \E j \in 1..Len(b.shapes) :
                    /\ Includes(v, b.shapes[j].id)
                    /\ Includes(v, b.shapes[j].parentId)


\* C37, as stated.  Export fires only on an export trigger: the export
\* effect has written exactly one file for each triggerExport() call, in
\* every reachable state, and no operation other than triggerExport() makes
\* it write one.
C37_ExportOnlyOnTrigger ==
    /\ [](exported = exportRequested)
    /\ [][exported' # exported => lastOp'.name = "triggerExport"]_vars


\* C38: isDragging is true only while a pointer gesture is in progress: once
\* the pointer is released after a push/pull press or a box-select drag,
\* isDragging eventually becomes false again, whatever key presses or mode
\* changes interleave with the gesture.
C38_DraggingEnds == (isDragging /\ ~pointerHeld) ~> ~isDragging

\* the rectangle of the drag as it stands: from the start point to the
\* pointer's most recent position
DragRectangle == Rectangle(Head(startPoint), Head(endPoint))

\* the pointer is released after a drag in select mode
SelectDragReleased ==
    /\ pointerHeld /\ ~pointerHeld'
    /\ transformMode = "select" /\ Listening
    /\ isSelecting /\ startPoint # <<>> /\ endPoint # <<>>

\* C39: when the pointer is released after a select-mode drag whose rectangle,
\* from the drag's start point to the pointer's most recent position, is wider
\* or taller than 5 pixels, the selection becomes exactly the visible, unlocked
\* shapes whose projected position lies inside that rectangle.
C39_BoxUsesCurrentRectangle ==
    [][ (SelectDragReleased /\ IsDrag(DragRectangle))
            => selectedIds' = BoxSelection(shapes, DragRectangle) ]_vars

=============================================================================
